---- MODULE Spec2Model ----
(***************************************************************************)
(* Model of the multi-client supervisor of headless-pm: the MCP clients    *)
(* (src/mcp/server.py) that share one API server per port, the process     *)
(* registry (src/utils/process_registry.py) and the atomic JSON file store *)
(* (src/utils/atomic_file_ops.py) they coordinate through.                 *)
(***************************************************************************)
EXTENDS Integers, Sequences, FiniteSets, TLC

\* ------------------------------------------------------------------ bounds
MaxPid == 4            \* PIDs the host hands out: 1..MaxPid
MaxTime == 6           \* the wall clock runs 1..MaxTime (seconds)
MaxStarts == 2         \* MCP client processes started side by side
MaxBurst == 4          \* MCP client processes started one after the other
MaxHostStarts == 1     \* MCP client processes started on the host with faults
MaxDirect == 1         \* MCP client processes started beside the constructed ones
MaxCrashes == 1        \* abrupt process deaths (SIGKILL, crash)
MaxOther == 1          \* unrelated processes started on the host
MaxJanitor == 1        \* runs of cleanup_process_registry
MaxCalls == 3          \* direct method calls

\* ------------------------------------------------------- program constants
DefaultPort == 6969    \* parsed.port or 6969
RateWindow == 5        \* five_seconds_ago = now - 5.0
RateLimit == 3         \* len(recent_attempts) >= 3
PruneAge == 300        \* five_minutes_ago = now - 300
CreateTolerance == 1   \* abs(current_create_time - start_time) > 1.0
HAS_PSUTIL == TRUE     \* psutil imports; the build the claims are about

Pids == 1..MaxPid
NoPid == 0             \* None, for a PID-valued field
Janitor == MaxPid + 1  \* identity of the caller of cleanup_process_registry
OtherPort == DefaultPort + 1   \* the port of a second base_url on the same host
Ports == {DefaultPort, OtherPort}
NoPort == 0
NoTime == 0             \* None, for a time-valued field
Times == 1..MaxTime

VARIABLES
    clock,      \* time.time(), whole seconds
    procs,      \* host process table: pid -> [kind, created, cmd]
    listener,   \* pid listening on the service port, or NoPid
    file,       \* the registry file: [state, doc]
    tmp,        \* the temp file of the update each caller has in flight
    lock,       \* holder of <registry>.lock (fasteners.InterProcessLock)
    exitLock,   \* holder of /tmp/api_exit_<port>.lock
    mcp,        \* local state of each MCP client process
    srv,        \* position of each API server process
    jan,        \* position of the cleanup_process_registry caller
    mode,       \* "run": clients side by side; "burst": clients one after the
                \* other; "host": a client on a host with faults; "direct":
                \* direct method calls
    admitted,   \* history: per port, the times of the attempts the limiter admitted
    signals,    \* history: what each _perform_cleanup found at its server PID
    count,      \* counters that bound the run
    runner,     \* the AdvancedAgentRunner process: position and locals
    lease,      \* ~/.headless-pm/locks/agent-<agent_id>.lock
    pm,         \* the PM service as the runner's HeadlessPMClient sees it
    ctx         \* one command discovery: its environment, ancestry and answer

vars == <<clock, procs, listener, file, tmp, lock, exitLock, mcp, srv, jan,
          mode, ctx, admitted, signals, count, runner, lease, pm>>

\* ------------------------------------------------------------ the document
EmptyMap == [q \in {} |-> 0]

\* {} : no key present
EmptyDoc ==
    [has_processes |-> FALSE, processes |-> EmptyMap, primary_api |-> NoPid,
     api_pid |-> NoPid, clients |-> EmptyMap,
     rate_limits |-> [po \in Ports |-> <<>>], rate_limit_blocked_port |-> NoPort]

\* {'clients': {}} : the default of _register_mcp_client/_unregister_mcp_client
ClientsDefault == EmptyDoc

ApiEntry(now) == [type |-> "api_server", client_id |-> 0, started |-> now]
ClientEntry(cid, now) == [type |-> "mcp_client", client_id |-> cid, started |-> now]

MapPut(m, k, v) == [q \in (DOMAIN m) \cup {k} |-> IF q = k THEN v ELSE m[q]]
MapDrop(m, ks) == [q \in (DOMAIN m) \ ks |-> m[q]]

Min(S) == CHOOSE x \in S : \A y \in S : x <= y
Abs(x) == IF x < 0 THEN -x ELSE x

mcp_client_count(data) ==
    Cardinality({q \in DOMAIN data.processes : data.processes[q].type = "mcp_client"})
api_server_count(data) ==
    Cardinality({q \in DOMAIN data.processes : data.processes[q].type = "api_server"})

\* ------------------------------------------------- process_registry.py
\* check_pid_conflict without its two legacy checks: only the flat map is read
check_pid_conflict_flat_only(data, pid, process_type) ==
    \E q \in DOMAIN data.processes :
        q = pid /\ data.processes[q].type # process_type

check_pid_conflict(data, pid, process_type) ==
    \/ \E q \in DOMAIN data.processes :
          q = pid /\ data.processes[q].type # process_type
    \/ data.api_pid = pid /\ process_type # "api_server"
    \/ \E c \in DOMAIN data.clients :
          data.clients[c].pid = pid /\ process_type # "mcp_client"

\* ex: the PIDs for which psutil.pid_exists holds; now: time.time()
migrate_legacy_structure(data, ex, now) ==
    IF data.has_processes /\ data.api_pid = NoPid /\ DOMAIN data.clients = {}
    THEN data
    ELSE
      LET apiLive == data.api_pid # NoPid /\ HAS_PSUTIL /\ data.api_pid \in ex
          p1 == IF apiLive THEN MapPut(data.processes, data.api_pid, ApiEntry(now))
                ELSE data.processes
          cpids == {data.clients[c].pid : c \in DOMAIN data.clients}
          take == {q \in cpids : q # NoPid /\ HAS_PSUTIL /\ q \in ex
                                 /\ q \notin DOMAIN p1}
          firstOf(q) == Min({c \in DOMAIN data.clients : data.clients[c].pid = q})
          p2 == [q \in (DOMAIN p1) \cup take |->
                   IF q \in DOMAIN p1 THEN p1[q]
                   ELSE ClientEntry(firstOf(q), data.clients[firstOf(q)].timestamp)]
      IN [has_processes |-> TRUE, processes |-> p2,
          primary_api |-> IF apiLive THEN data.api_pid ELSE NoPid,
          api_pid |-> NoPid, clients |-> EmptyMap,
          rate_limits |-> data.rate_limits,
          rate_limit_blocked_port |-> data.rate_limit_blocked_port]

\* a registration of the API server that leaves primary_api as it was
register_api_pid_unelected(data, current_pid, ex, now) ==
    LET d1 == migrate_legacy_structure([data EXCEPT !.has_processes = TRUE], ex, now)
    IN [raised |-> FALSE,
        doc |-> [d1 EXCEPT !.processes = MapPut(d1.processes, current_pid, ApiEntry(now))]]

\* the update function of register_api_server; raised = the ValueError
register_api_pid(data, current_pid, ex, now) ==
    IF check_pid_conflict(data, current_pid, "api_server")
    THEN [raised |-> TRUE, doc |-> data]
    ELSE
      LET d0 == [data EXCEPT !.has_processes = TRUE]
          d1 == migrate_legacy_structure(d0, ex, now)
      IN [raised |-> FALSE,
          doc |-> [d1 EXCEPT !.processes = MapPut(d1.processes, current_pid, ApiEntry(now)),
                             !.primary_api = current_pid]]

first_api_server(processes) ==
    LET apis == {q \in DOMAIN processes : processes[q].type = "api_server"}
    IN IF apis = {} THEN NoPid ELSE Min(apis)

\* the update function of unregister_api_server
unregister_api_pid(data, current_pid, ex, now) ==
    LET d == migrate_legacy_structure(data, ex, now)
        hit == current_pid \in DOMAIN d.processes
               /\ d.processes[current_pid].type = "api_server"
        ps == IF hit THEN MapDrop(d.processes, {current_pid}) ELSE d.processes
    IN [raised |-> FALSE,
        doc |-> [d EXCEPT !.processes = ps, !.has_processes = TRUE,
                          !.primary_api = IF hit /\ d.primary_api = current_pid
                                          THEN first_api_server(ps)
                                          ELSE d.primary_api]]

\* the update function of cleanup_process_registry
cleanup_stale_processes(data, ex, now) ==
    LET d == migrate_legacy_structure(data, ex, now)
        active == MapDrop(d.processes,
                          {q \in DOMAIN d.processes : ~(HAS_PSUTIL /\ q \in ex)})
        dead == d.primary_api # NoPid /\ (~HAS_PSUTIL \/ d.primary_api \notin ex)
    IN [raised |-> FALSE,
        doc |-> [d EXCEPT !.processes = active, !.has_processes = TRUE,
                          !.primary_api = IF dead THEN first_api_server(active)
                                          ELSE d.primary_api]]

\* "if not result.get('api_pid') and not result.get('clients')": unlink
cleanup_unlinks(result) == result.api_pid = NoPid /\ DOMAIN result.clients = {}

\* ------------------------------------------------------- mcp/server.py
\* ensure_api_available.clean_stale_pids
clean_stale_pids(data, ex, now) ==
    LET d == migrate_legacy_structure(data, ex, now)
        d1 == IF d.api_pid # NoPid /\ HAS_PSUTIL /\ d.api_pid \notin ex
              THEN [d EXCEPT !.api_pid = NoPid] ELSE d
        stale == {q \in DOMAIN d1.processes : q \notin ex}
    IN [raised |-> FALSE,
        doc |-> IF HAS_PSUTIL /\ d1.has_processes
                THEN [d1 EXCEPT !.processes = MapDrop(d1.processes, stale)]
                ELSE d1]

\* a registration that takes every call for a PID conflict and adds nothing
add_client_skipped(data, current_pid, client_id, ex, now) ==
    [raised |-> FALSE, doc |-> migrate_legacy_structure(data, ex, now)]

\* _register_mcp_client.add_client
add_client(data, current_pid, client_id, ex, now) ==
    LET d == migrate_legacy_structure(data, ex, now)
    IN [raised |-> FALSE,
        doc |-> IF check_pid_conflict(d, current_pid, "mcp_client")
                THEN d
                ELSE [d EXCEPT !.has_processes = TRUE,
                               !.processes = MapPut(d.processes, current_pid,
                                                    ClientEntry(client_id, now))]]

\* should_start in _register_mcp_client
should_start(result) ==
    \/ (mcp_client_count(result) = 1 /\ api_server_count(result) = 0)
    \/ api_server_count(result) = 0

\* an unregistration that migrates the document and pops nothing
remove_client_kept(data, current_pid, client_id, ex, now) ==
    LET d == migrate_legacy_structure(data, ex, now)
    IN [raised |-> FALSE, doc |-> [d EXCEPT !.has_processes = TRUE]]

\* _unregister_mcp_client.coordinated_unregister.remove_client
remove_client(data, current_pid, client_id, ex, now) ==
    LET d == migrate_legacy_structure(data, ex, now)
        hit == current_pid \in DOMAIN d.processes
               /\ d.processes[current_pid].client_id = client_id
    IN [raised |-> FALSE,
        doc |-> [d EXCEPT !.has_processes = TRUE,
                          !.processes = IF hit THEN MapDrop(d.processes, {current_pid})
                                        ELSE d.processes]]

\* a cleanup decision that looks at the remaining clients only
should_cleanup_when_empty(result, we_started_api) == mcp_client_count(result) = 0

\* should_cleanup in coordinated_unregister
should_cleanup(result, we_started_api) ==
    mcp_client_count(result) = 0 /\ we_started_api

\* an update function that leaves the signal key of an earlier block in place
update_and_check_rate_limit_signal_kept(data, port, now) ==
    LET pruned == SelectSeq(data.rate_limits[port], LAMBDA t : t > now - PruneAge)
        recent_attempts == SelectSeq(pruned, LAMBDA t : t > now - RateWindow)
    IN [raised |-> FALSE,
        doc |-> IF Len(recent_attempts) >= RateLimit
                THEN [data EXCEPT !.rate_limit_blocked_port = port]
                ELSE [data EXCEPT !.rate_limits[port] = Append(pruned, now)]]

\* _check_startup_rate_limit.update_and_check_rate_limit
update_and_check_rate_limit(data, port, now) ==
    LET five_minutes_ago == now - PruneAge
        pruned == SelectSeq(data.rate_limits[port], LAMBDA t : t > five_minutes_ago)
        five_seconds_ago == now - RateWindow
        recent_attempts == SelectSeq(pruned, LAMBDA t : t > five_seconds_ago)
    IN [raised |-> FALSE,
        doc |-> IF Len(recent_attempts) >= RateLimit
                THEN [data EXCEPT !.rate_limit_blocked_port = port]
                ELSE [data EXCEPT !.rate_limits[port] = Append(pruned, now),
                                  !.rate_limit_blocked_port = NoPort]]

\* the return value of _check_startup_rate_limit
rate_limit_allows(final_data, port) == final_data.rate_limit_blocked_port # port

\* ------------------------------------------------- atomic_file_ops.py
Absent == [state |-> "absent", doc |-> EmptyDoc]
Stored(d) == [state |-> "ok", doc |-> d]

\* a file that is not a JSON text: json.load raises json.JSONDecodeError
Corrupt == [state |-> "corrupt", doc |-> EmptyDoc]
\* a file whose bytes are not text in the reader's encoding: the read inside
\* json.load raises UnicodeDecodeError
Undecodable == [state |-> "undecodable", doc |-> EmptyDoc]

\* AtomicFileOperations._read_json_safe lets through what its except clause
\* (FileNotFoundError, json.JSONDecodeError, OSError) does not name
_read_json_raises(f) == f.state = "undecodable"

\* AtomicFileOperations._read_json_safe, when it returns
_read_json_safe(f, default) == IF f.state = "ok" THEN f.doc ELSE default

\* a write that opens the destination itself: the file is truncated and holds
\* a partial document until the dump ends
_write_json_in_place(f, data) ==
    [file |-> [state |-> "partial", doc |-> EmptyDoc], tmp |-> Stored(data)]

\* AtomicFileOperations._write_json_atomic up to the rename: json.dump, flush
\* and fsync go to a temp file in the same directory; the destination f is
\* not touched
_write_json_atomic(f, data) == [file |-> f, tmp |-> Stored(data)]

\* the rename of _write_json_atomic
_rename(t) == Stored(t.doc)

\* -------------------------------------------------------------- the host
Free == [kind |-> "free", created |-> NoTime, cmd |-> FALSE]

\* psutil.pid_exists
Ex == {q \in Pids : procs[q].kind # "free"}

NoClient ==
    [pc |-> "none", ph |-> "call", client_id |-> 0,
     should_start_api |-> FALSE, we_started_api |-> FALSE,
     api_server_pid |-> NoPid, api_server_start_time |-> NoTime,
     api_process |-> NoPid, checked |-> FALSE, rate_ok |-> FALSE,
     discovered |-> FALSE, should_cleanup_api |-> FALSE,
     no_autostart |-> FALSE,  \* HEADLESS_PM_NO_AUTOSTART is set and non-empty
     port |-> DefaultPort,    \* urlparse(self.base_url).port or 6969
     now |-> NoTime,          \* time.time() of the running rate-limit check
     spawned |-> FALSE,   \* history: this invocation ran subprocess.Popen
     role |-> "none"]     \* history: how ensure_api_available succeeded

\* HeadlessPMMCPServer.__init__
NewClient(cid, at) == [NoClient EXCEPT !.pc = at, !.client_id = cid]

NoServer == [pc |-> "none", parent |-> NoPid]

\* GET /health answers 200
Healthy == listener # NoPid

\* HeadlessPMMCPServer._find_api_server_pid: <<pid, create_time>> or None
_find_api_server_pid ==
    IF listener # NoPid /\ procs[listener].cmd
    THEN <<listener, procs[listener].created>>
    ELSE <<NoPid, NoTime>>

\* the process dies: the OS closes its sockets and releases its file locks
Gone(q) ==
    /\ procs' = [procs EXCEPT ![q] = Free]
    /\ listener' = IF listener = q THEN NoPid ELSE listener
    /\ lock' = IF lock = q THEN NoPid ELSE lock
    /\ exitLock' = IF exitLock = q THEN NoPid ELSE exitLock
    /\ tmp' = [tmp EXCEPT ![q] = Absent]

\* ------------------------------------------------------------ environment
Bump(c) == [count EXCEPT ![c] = @ + 1]

\* the host hands out the lowest free PID
NextPid ==
    IF \E q \in Pids : procs[q].kind = "free"
    THEN Min({q \in Pids : procs[q].kind = "free"})
    ELSE NoPid

Live(kind) == {q \in Pids : procs[q].kind = kind}

\* how many client processes the run starts
CanStart ==
    CASE mode \in {"run", "fault"} -> count.starts < MaxStarts
      [] mode = "burst" -> count.starts < MaxBurst /\ Live("mcp_client") = {}
      [] mode = "host" -> count.starts < MaxHostStarts /\ Live("mcp_client") = {}
      [] mode = "direct" -> count.starts < MaxDirect

\* one second passes
Tick ==
    /\ clock < MaxTime
    /\ clock' = clock + 1
    /\ UNCHANGED <<procs, listener, file, tmp, lock, exitLock, mcp, srv, jan,
                   mode, ctx, runner, lease, pm, admitted, signals, count>>

\* the environment a client process is started in: whether
\* os.environ.get("HEADLESS_PM_NO_AUTOSTART") is truthy; only the side-by-side
\* run starts clients with the variable set
Environments == IF mode = "run" THEN BOOLEAN ELSE {FALSE}

\* a new MCP client process: main() constructs HeadlessPMMCPServer and, in
\* the running system, calls run()
StartClient(p) ==
    /\ p = NextPid
    /\ CanStart
    /\ procs' = [procs EXCEPT ![p] = [kind |-> "mcp_client", created |-> clock,
                                      cmd |-> FALSE]]
    /\ \E na \in Environments :
         mcp' = [mcp EXCEPT ![p] =
                   [NewClient(count.ids + 1,
                              IF mode = "direct" THEN "idle" ELSE "clean")
                      EXCEPT !.no_autostart = na]]
    /\ count' = [count EXCEPT !.starts = @ + 1, !.ids = @ + 1]
    /\ UNCHANGED <<clock, listener, file, tmp, lock, exitLock, srv, jan,
                   mode, ctx, runner, lease, pm, admitted, signals>>

\* an unrelated process appears on the host; cmd: its command line contains
\* 'uvicorn' or 'src.main'
StartOther(p, cmd) ==
    /\ p = NextPid
    /\ count.others < MaxOther
    /\ procs' = [procs EXCEPT ![p] = [kind |-> "other", created |-> clock,
                                      cmd |-> cmd]]
    /\ count' = Bump("others")
    /\ UNCHANGED <<clock, listener, file, tmp, lock, exitLock, mcp, srv, jan,
                   mode, ctx, runner, lease, pm, admitted, signals>>

\* a process is killed or crashes; nothing of its own code runs
Crash(p) ==
    /\ procs[p].kind # "free"
    /\ count.crashes < MaxCrashes
    /\ Gone(p)
    /\ mcp' = [mcp EXCEPT ![p] = NoClient]
    /\ srv' = [srv EXCEPT ![p] = NoServer]
    /\ count' = Bump("crashes")
    /\ UNCHANGED <<clock, file, jan, mode, ctx, runner, lease, pm, admitted, signals>>

\* ------------------------------------------- atomic_json_update, by clients
UpdatePcs == {"clean_upd", "register", "rate_limit", "unregister"}

\* update_func(current_data.copy()) of the update the client is about to run
ClientUpdate(p) ==
    LET m == mcp[p] IN
    CASE m.pc = "clean_upd" ->
           clean_stale_pids(_read_json_safe(file, EmptyDoc), Ex, clock)
      [] m.pc = "register" ->
           add_client(_read_json_safe(file, ClientsDefault), p, m.client_id, Ex, clock)
      [] m.pc = "rate_limit" ->
           update_and_check_rate_limit(_read_json_safe(file, EmptyDoc), m.port, m.now)
      [] m.pc = "unregister" ->
           remove_client(_read_json_safe(file, ClientsDefault), p, m.client_id, Ex, clock)

\* where a method returns to: its caller in run(), or the direct caller
Ret(next) == IF mode = "direct" THEN "idle" ELSE next

\* ensure_api_available going on to discovery whatever the limiter answered
after_rate_limit_ignored(allowed) == "discover"

\* ensure_api_available after _check_startup_rate_limit returned
after_rate_limit(allowed) == IF allowed THEN "discover" ELSE "failed"

\* what the caller does with the document atomic_json_update returned
AfterUpdate(m, result) ==
    LET n == [m EXCEPT !.ph = "call"] IN
    CASE m.pc = "clean_upd" -> [n EXCEPT !.pc = Ret("register")]
      [] m.pc = "register" ->
           [n EXCEPT !.should_start_api = should_start(result),
                     !.pc = Ret("probe")]
      [] m.pc = "rate_limit" ->
           [n EXCEPT !.checked = TRUE,
                     !.now = NoTime,
                     !.rate_ok = rate_limit_allows(result, m.port),
                     !.pc = Ret(after_rate_limit(rate_limit_allows(result, m.port)))]
      [] m.pc = "unregister" ->
           [n EXCEPT !.should_cleanup_api = should_cleanup(result, m.we_started_api),
                     !.pc = "unlink"]

\* callers that take a failed unregistration for "we were the last client"
AfterRaise_cleaning(m) ==
    LET n == [m EXCEPT !.ph = "call"] IN
    CASE m.pc = "clean_upd" -> [n EXCEPT !.pc = Ret("register")]
      [] m.pc = "register" ->
           [n EXCEPT !.should_start_api = TRUE, !.pc = Ret("probe")]
      [] m.pc = "rate_limit" ->
           [n EXCEPT !.checked = TRUE, !.rate_ok = TRUE, !.now = NoTime,
                     !.pc = Ret(after_rate_limit(TRUE))]
      [] m.pc = "unregister" ->
           [n EXCEPT !.should_cleanup_api = m.we_started_api, !.pc = "unlink"]

\* what the caller does when atomic_json_update raised: ensure_api_available
\* logs and goes on, _register_mcp_client returns True,
\* _check_startup_rate_limit allows the startup, with_coordination_lock
\* returns None and _unregister_mcp_client False
AfterRaise(m) ==
    LET n == [m EXCEPT !.ph = "call"] IN
    CASE m.pc = "clean_upd" -> [n EXCEPT !.pc = Ret("register")]
      [] m.pc = "register" ->
           [n EXCEPT !.should_start_api = TRUE, !.pc = Ret("probe")]
      [] m.pc = "rate_limit" ->
           [n EXCEPT !.checked = TRUE, !.rate_ok = TRUE, !.now = NoTime,
                     !.pc = Ret(after_rate_limit(TRUE))]
      [] m.pc = "unregister" ->
           [n EXCEPT !.should_cleanup_api = FALSE, !.pc = "unlink"]

\* atomic_json_update up to the rename: take the lock (and, for
\* _unregister_mcp_client, the api_exit coordination lock around it), read,
\* apply the update function, write the temp file
ClientBegin(p) ==
    /\ procs[p].kind = "mcp_client"
    /\ mcp[p].pc \in UpdatePcs /\ mcp[p].ph = "call"
    /\ lock = NoPid
    /\ mcp[p].pc = "unregister" => exitLock = NoPid
    /\ IF _read_json_raises(file)
       THEN /\ mcp' = [mcp EXCEPT ![p] = AfterRaise(mcp[p])]
            /\ UNCHANGED <<file, tmp, lock, exitLock>>
       ELSE /\ LET w == _write_json_atomic(file, ClientUpdate(p).doc) IN
                 /\ file' = w.file
                 /\ tmp' = [tmp EXCEPT ![p] = w.tmp]
            /\ lock' = p
            /\ exitLock' = IF mcp[p].pc = "unregister" THEN p ELSE exitLock
            /\ mcp' = [mcp EXCEPT ![p].ph = "locked"]
    /\ UNCHANGED <<clock, procs, listener, srv, jan, mode, ctx, runner, lease, pm, admitted,
                   signals, count>>

\* the rename, the release of the lock, and the caller's use of the result
ClientCommit(p) ==
    /\ procs[p].kind = "mcp_client"
    /\ mcp[p].ph = "locked"
    /\ file' = _rename(tmp[p])
    /\ tmp' = [tmp EXCEPT ![p] = Absent]
    /\ lock' = NoPid
    /\ mcp' = [mcp EXCEPT ![p] = AfterUpdate(mcp[p], tmp[p].doc)]
    /\ admitted' = IF mcp[p].pc = "rate_limit"
                      /\ rate_limit_allows(tmp[p].doc, mcp[p].port)
                   THEN LET a == tmp[p].doc.rate_limits[mcp[p].port]
                        IN [admitted EXCEPT ![mcp[p].port] = Append(@, a[Len(a)])]
                   ELSE admitted
    /\ UNCHANGED <<clock, procs, listener, exitLock, srv, jan, mode, ctx, runner, lease, pm,
                   signals, count>>

\* ------------------------------------------------ ensure_api_available
\* "if coordination_file.exists()"
CleanCheck(p) ==
    /\ procs[p].kind = "mcp_client"
    /\ mcp[p].pc = "clean"
    /\ mcp' = [mcp EXCEPT ![p].pc = IF file.state # "absent" THEN "clean_upd"
                                    ELSE "register"]
    /\ UNCHANGED <<clock, procs, listener, file, tmp, lock, exitLock, srv, jan,
                   mode, ctx, runner, lease, pm, admitted, signals, count>>

\* a connecting client that marks itself as the one that started the API
connected_taking_ownership(m, info) ==
    [m EXCEPT !.we_started_api = TRUE,
              !.api_server_pid = IF info[1] # NoPid THEN info[1] ELSE @,
              !.api_server_start_time = IF info[1] # NoPid THEN info[2] ELSE @,
              !.role = "connected",
              !.pc = "serving"]

\* /health answered 200 on a probe before any spawn: connected to existing
connected_to_existing(m, info) ==
    [m EXCEPT !.we_started_api = FALSE,
              !.api_server_pid = IF info[1] # NoPid THEN info[1] ELSE @,
              !.api_server_start_time = IF info[1] # NoPid THEN info[2] ELSE @,
              !.role = "connected",
              !.pc = "serving"]

\* a client that goes on to the rate limiter whatever its environment says
after_probes_failed_ignoring_env(m) == "rate_limit"

\* "Check if auto-start is disabled": return False, or go on to Step 2
after_probes_failed(m) == IF m.no_autostart THEN "failed" ELSE "rate_limit"

\* the next step of ensure_api_available; _check_startup_rate_limit reads
\* time.time() when it is called, before it waits for the lock
entering(m, next) ==
    [m EXCEPT !.pc = next, !.now = IF next = "rate_limit" THEN clock ELSE @]

\* Step 1: the first health probe
Probe(p) ==
    /\ procs[p].kind = "mcp_client"
    /\ mcp[p].pc = "probe"
    /\ mcp' = [mcp EXCEPT ![p] =
                 IF Healthy THEN connected_to_existing(@, _find_api_server_pid)
                 ELSE entering(@, IF mcp[p].should_start_api
                                  THEN after_probes_failed(mcp[p])
                                  ELSE "wait_peer")]
    /\ UNCHANGED <<clock, procs, listener, file, tmp, lock, exitLock, srv, jan,
                   mode, ctx, runner, lease, pm, admitted, signals, count>>

\* "Another MCP client should be starting the API, waiting...": a probe of
\* the loop answers 200
WaitPeerConnected(p) ==
    /\ procs[p].kind = "mcp_client"
    /\ mcp[p].pc = "wait_peer"
    /\ Healthy
    /\ mcp' = [mcp EXCEPT ![p] = connected_to_existing(@, _find_api_server_pid)]
    /\ UNCHANGED <<clock, procs, listener, file, tmp, lock, exitLock, srv, jan,
                   mode, ctx, runner, lease, pm, admitted, signals, count>>

\* all ten probes failed: "Timeout waiting for another MCP client"
WaitPeerTimeout(p) ==
    /\ procs[p].kind = "mcp_client"
    /\ mcp[p].pc = "wait_peer"
    /\ ~Healthy
    /\ mcp' = [mcp EXCEPT ![p] = entering(@, after_probes_failed(mcp[p]))]
    /\ UNCHANGED <<clock, procs, listener, file, tmp, lock, exitLock, srv, jan,
                   mode, ctx, runner, lease, pm, admitted, signals, count>>

\* _find_headless_pm_command found nothing, or the pre-validation failed
DiscoverFail(p) ==
    /\ procs[p].kind = "mcp_client"
    /\ mcp[p].pc = "discover"
    /\ mcp' = [mcp EXCEPT ![p].discovered = TRUE, ![p].pc = "failed"]
    /\ UNCHANGED <<clock, procs, listener, file, tmp, lock, exitLock, srv, jan,
                   mode, ctx, runner, lease, pm, admitted, signals, count>>

\* command found and validated; subprocess.Popen gives child c
Spawn(p, c) ==
    /\ procs[p].kind = "mcp_client"
    /\ mcp[p].pc = "discover"
    /\ c = NextPid
    /\ procs' = [procs EXCEPT ![c] = [kind |-> "api_server", created |-> clock,
                                      cmd |-> TRUE]]
    /\ srv' = [srv EXCEPT ![c] = [pc |-> "startup", parent |-> p]]
    /\ mcp' = [mcp EXCEPT ![p].discovered = TRUE, ![p].api_process = c,
                          ![p].spawned = TRUE, ![p].pc = "wait_ready"]
    /\ UNCHANGED <<clock, listener, file, tmp, lock, exitLock, jan, mode, ctx, runner, lease, pm,
                   admitted, signals, count>>

\* self._api_process.poll() is None
ChildAlive(p) ==
    LET c == mcp[p].api_process IN
    c # NoPid /\ procs[c].kind = "api_server" /\ srv[c].parent = p

\* the child exited before /health answered
WaitReadyDied(p) ==
    /\ procs[p].kind = "mcp_client"
    /\ mcp[p].pc = "wait_ready"
    /\ ~ChildAlive(p)
    /\ mcp' = [mcp EXCEPT ![p].api_process = NoPid, ![p].pc = "failed"]
    /\ UNCHANGED <<clock, procs, listener, file, tmp, lock, exitLock, srv, jan,
                   mode, ctx, runner, lease, pm, admitted, signals, count>>

\* /health answered 200 while waiting for the child: "Mark that WE started"
started_by_us(m, info) ==
    [m EXCEPT !.we_started_api = TRUE,
              !.api_server_pid = IF info[1] # NoPid THEN info[1] ELSE @,
              !.api_server_start_time = IF info[1] # NoPid THEN info[2] ELSE @,
              !.role = "owner",
              !.pc = "serving"]

WaitReadyHealthy(p) ==
    /\ procs[p].kind = "mcp_client"
    /\ mcp[p].pc = "wait_ready"
    /\ ChildAlive(p)
    /\ Healthy
    /\ mcp' = [mcp EXCEPT ![p] = started_by_us(@, _find_api_server_pid)]
    /\ UNCHANGED <<clock, procs, listener, file, tmp, lock, exitLock, srv, jan,
                   mode, ctx, runner, lease, pm, admitted, signals, count>>

\* the timeout branch with the child left running
terminate_skipped(c) ==
    UNCHANGED <<procs, listener, lock, exitLock, tmp, srv>>

\* self._api_process.terminate(), wait(3), then kill() and wait(2)
terminate(c) ==
    /\ Gone(c)
    /\ srv' = [srv EXCEPT ![c] = NoServer]

\* thirty probes failed with the child still running: terminate it
WaitReadyTimeout(p) ==
    /\ procs[p].kind = "mcp_client"
    /\ mcp[p].pc = "wait_ready"
    /\ ChildAlive(p)
    /\ ~Healthy
    /\ terminate(mcp[p].api_process)
    /\ mcp' = [mcp EXCEPT ![p].api_process = NoPid, ![p].pc = "failed"]
    /\ UNCHANGED <<clock, file, jan, mode, ctx, runner, lease, pm, admitted, signals, count>>

\* -------------------------------------------------------- _perform_cleanup
\* run(): the shutdown signal arrived or the stdio server ended
Shutdown(p) ==
    /\ procs[p].kind = "mcp_client"
    /\ mcp[p].pc = "serving"
    /\ mcp' = [mcp EXCEPT ![p].pc = "unregister"]
    /\ UNCHANGED <<clock, procs, listener, file, tmp, lock, exitLock, srv, jan,
                   mode, ctx, runner, lease, pm, admitted, signals, count>>

\* the "finally" of _perform_cleanup
cleared(m) ==
    [m EXCEPT !.api_server_pid = NoPid, !.api_server_start_time = NoTime,
              !.we_started_api = FALSE, !.should_cleanup_api = FALSE,
              !.pc = "done"]

\* the end of coordinated_unregister ("if should_cleanup: unlink"), the
\* release of the coordination lock, and the early returns of
\* _perform_cleanup
Unlink(p) ==
    /\ procs[p].kind = "mcp_client"
    /\ mcp[p].pc = "unlink"
    /\ file' = IF mcp[p].should_cleanup_api THEN Absent ELSE file
    /\ exitLock' = NoPid
    /\ mcp' = [mcp EXCEPT ![p] =
                 IF mode = "direct" THEN [@ EXCEPT !.should_cleanup_api = FALSE, !.pc = "idle"]
                 ELSE IF /\ mcp[p].should_cleanup_api
                         /\ mcp[p].we_started_api
                         /\ mcp[p].api_server_pid # NoPid
                      THEN [@ EXCEPT !.pc = "terminate"]
                      ELSE cleared(@)]
    /\ UNCHANGED <<clock, procs, listener, tmp, lock, srv, jan, mode, ctx, runner, lease, pm,
                   admitted, signals, count>>

\* the validation without the creation-time comparison
may_terminate_by_cmdline(start_time, created, cmd) == cmd

\* the PID-reuse validation of _perform_cleanup: creation time, command line
may_terminate(start_time, created, cmd) ==
    /\ ~(start_time # NoTime /\ Abs(created - start_time) > CreateTolerance)
    /\ cmd

\* MCP clients other than p that hold their own entry in the registry file
RegisteredOthers(p) ==
    {q \in Pids \ {p} :
        /\ procs[q].kind = "mcp_client"
        /\ file.state = "ok"
        /\ q \in DOMAIN file.doc.processes
        /\ file.doc.processes[q].type = "mcp_client"
        /\ file.doc.processes[q].client_id = mcp[q].client_id}

\* psutil.Process(cleanup_pid), the validation, terminate() and, after the
\* 5 s wait, kill(); a process that is signalled ends
Terminate(p) ==
    /\ procs[p].kind = "mcp_client"
    /\ mcp[p].pc = "terminate"
    /\ LET v == mcp[p].api_server_pid
           pr == procs[v]
           go == /\ pr.kind # "free"
                 /\ may_terminate(mcp[p].api_server_start_time, pr.created, pr.cmd)
       IN /\ signals' = IF pr.kind = "free" THEN signals
                        ELSE signals \cup
                             {[role |-> mcp[p].role, sent |-> go,
                               drift |-> Abs(pr.created - mcp[p].api_server_start_time)
                                           > CreateTolerance,
                               cmd |-> pr.cmd, kind |-> pr.kind,
                               others |-> RegisteredOthers(p) # {}]}
          /\ IF go
             THEN /\ Gone(v)
                  /\ srv' = [srv EXCEPT ![v] = NoServer]
             ELSE UNCHANGED <<procs, listener, lock, exitLock, tmp, srv>>
    /\ mcp' = [mcp EXCEPT ![p] = cleared(@)]
    /\ UNCHANGED <<clock, file, jan, mode, ctx, runner, lease, pm, admitted, count>>

\* run() returns (after the cleanup, or at once when ensure_api_available
\* returned False) and the client process ends
ClientExit(p) ==
    /\ procs[p].kind = "mcp_client"
    /\ mcp[p].pc \in {"failed", "done"}
    /\ Gone(p)
    /\ mcp' = [mcp EXCEPT ![p] = NoClient]
    /\ UNCHANGED <<clock, file, srv, jan, mode, ctx, runner, lease, pm, admitted, signals, count>>

\* --------------------------------------------------- the API server process
\* the lock still held by c after the exception left the "with" block
lock_kept_on_exception(c) == c

\* "with lock:" when the block is left by an exception: the lock is released
lock_on_exception(c) == NoPid

\* lifespan startup: register_api_server, up to the rename; the ValueError
\* of a PID conflict leaves the lock and register_api_server returns False
ServerBegin(c) ==
    /\ procs[c].kind = "api_server"
    /\ srv[c].pc = "startup"
    /\ lock = NoPid
    /\ LET r == register_api_pid(_read_json_safe(file, EmptyDoc), c, Ex, clock)
           w == _write_json_atomic(file, r.doc)
       IN IF _read_json_raises(file) \/ r.raised
          THEN /\ srv' = [srv EXCEPT ![c].pc = Ret("bind")]
               /\ lock' = lock_on_exception(c)
               /\ UNCHANGED <<file, tmp>>
          ELSE /\ file' = w.file
               /\ tmp' = [tmp EXCEPT ![c] = w.tmp]
               /\ lock' = c
               /\ srv' = [srv EXCEPT ![c].pc = "locked"]
    /\ UNCHANGED <<clock, procs, listener, exitLock, mcp, jan, mode, ctx, runner, lease, pm,
                   admitted, signals, count>>

ServerCommit(c) ==
    /\ procs[c].kind = "api_server"
    /\ srv[c].pc = "locked"
    /\ file' = _rename(tmp[c])
    /\ tmp' = [tmp EXCEPT ![c] = Absent]
    /\ lock' = NoPid
    /\ srv' = [srv EXCEPT ![c].pc = Ret("bind")]
    /\ UNCHANGED <<clock, procs, listener, exitLock, mcp, jan, mode, ctx, runner, lease, pm,
                   admitted, signals, count>>

\* unregister_api_server: f"api_shutdown_{port}" names an undefined variable;
\* the NameError is caught by "except Exception: return False" before the
\* registry is touched
unregister_api_server(f) == f

\* the server binds the port and serves, or the port is taken: lifespan
\* shutdown runs unregister_api_server and the process ends
ServerBind(c) ==
    /\ procs[c].kind = "api_server"
    /\ srv[c].pc = "bind"
    /\ IF listener = NoPid
       THEN /\ listener' = c
            /\ srv' = [srv EXCEPT ![c].pc = "serving"]
            /\ UNCHANGED <<procs, lock, exitLock, tmp, file>>
       ELSE /\ Gone(c)
            /\ srv' = [srv EXCEPT ![c] = NoServer]
            /\ file' = unregister_api_server(file)
    /\ UNCHANGED <<clock, mcp, jan, mode, ctx, runner, lease, pm, admitted, signals, count>>

\* ------------------------------------------------ cleanup_process_registry
JanitorBegin ==
    /\ mode = "direct"
    /\ jan.pc = "idle"
    /\ count.janitor < MaxJanitor
    /\ lock = NoPid
    /\ IF _read_json_raises(file)
       THEN UNCHANGED <<file, tmp, lock, jan>>
       ELSE /\ LET r == cleanup_stale_processes(_read_json_safe(file, EmptyDoc),
                                                Ex, clock)
                   w == _write_json_atomic(file, r.doc)
               IN /\ file' = w.file
                  /\ tmp' = [tmp EXCEPT ![Janitor] = w.tmp]
            /\ lock' = Janitor
            /\ jan' = [jan EXCEPT !.pc = "locked"]
    /\ count' = Bump("janitor")
    /\ UNCHANGED <<clock, procs, listener, exitLock, mcp, srv, mode, ctx, runner, lease, pm,
                   admitted, signals>>

JanitorCommit ==
    /\ jan.pc = "locked"
    /\ file' = _rename(tmp[Janitor])
    /\ tmp' = [tmp EXCEPT ![Janitor] = Absent]
    /\ lock' = NoPid
    /\ jan' = [pc |-> "unlink", unlink |-> cleanup_unlinks(tmp[Janitor].doc)]
    /\ UNCHANGED <<clock, procs, listener, exitLock, mcp, srv, mode, ctx, runner, lease, pm,
                   admitted, signals, count>>

\* "Remove registry file if no active processes": registry_file.unlink()
JanitorUnlink ==
    /\ jan.pc = "unlink"
    /\ file' = IF jan.unlink THEN Absent ELSE file
    /\ jan' = [pc |-> "idle", unlink |-> FALSE]
    /\ UNCHANGED <<clock, procs, listener, tmp, lock, exitLock, mcp, srv,
                   mode, ctx, runner, lease, pm, admitted, signals, count>>

\* ------------------------------------------------------ direct method calls
\* a test or a peer calls _register_mcp_client, _check_startup_rate_limit or
\* _unregister_mcp_client on a constructed client
CallClient(p, m) ==
    /\ mode = "direct"
    /\ procs[p].kind = "mcp_client"
    /\ mcp[p].pc = "idle"
    /\ count.calls < MaxCalls
    /\ mcp' = [mcp EXCEPT ![p].pc = m]
    /\ count' = Bump("calls")
    /\ UNCHANGED <<clock, procs, listener, file, tmp, lock, exitLock, srv, jan,
                   mode, ctx, runner, lease, pm, admitted, signals>>

\* an API server process calls register_api_server
CallServer(c) ==
    /\ mode = "direct"
    /\ procs[c].kind = "api_server"
    /\ srv[c].pc = "idle"
    /\ count.calls < MaxCalls
    /\ srv' = [srv EXCEPT ![c].pc = "startup"]
    /\ count' = Bump("calls")
    /\ UNCHANGED <<clock, procs, listener, file, tmp, lock, exitLock, mcp, jan,
                   mode, ctx, runner, lease, pm, admitted, signals>>

\* ============================================================ agent runner
\* AdvancedAgentRunner (one agent id) with its TaskPersistence lease file and
\* the PM service it talks to through HeadlessPMClient.

MaxTasks == 2
MaxRunnerStarts == 3
MaxRetries == 1

Tasks == 1 .. MaxTasks
NoTask == 0
\* the tasks whose 'complexity' is 'major'
MajorTasks == {t \in Tasks : t % 2 = 0}
Roles == {"backend_dev", "qa"}
Statuses == {"created", "under_work", "dev_done", "completed", "cancelled"}
\* the order in which a task moves through the PM service
Rank(s) ==
    CASE s = "created" -> 0
      [] s = "under_work" -> 1
      [] s = "dev_done" -> 2
      [] s = "completed" -> 3
      [] s = "cancelled" -> 3

\* everything but the runner, its lease file and the PM service
mcpVars == <<clock, procs, listener, file, tmp, lock, exitLock, mcp, srv, jan,
             mode, ctx, admitted, signals, count>>

NoLease == [state |-> "absent", task |-> NoTask]
\* TaskPersistence.lock_task after json.dump returned
Lease(t) == [state |-> "ok", task |-> t]
\* a lease file that open(lock_file, 'w') truncated and json.dump did not finish
Torn(t) == [state |-> "partial", task |-> t]

\* TaskPersistence.release_lock
release_lock_kept(l) == l
release_lock(l) == NoLease
\* TaskPersistence.is_locked
is_locked(l) == l.state # "absent"
\* TaskPersistence.get_locked_task: the task of a readable lease
get_locked_task(l) == IF l.state = "ok" THEN l.task ELSE NoTask
\* get_locked_task's effect on the file: a corrupted lease file is removed
after_get_locked_task(l) == IF l.state = "partial" THEN release_lock(l) ELSE l
\* TaskPersistence.update_lock(worktree_path=<Path>, branch_name=...): the
\* Path is not JSON serializable, json.dump raises TypeError after the file
\* was truncated and the fields before "worktree_path" were written
update_lock(l) ==
    IF get_locked_task(l) # NoTask THEN Torn(l.task) ELSE after_get_locked_task(l)

\* _recover_locked_task: the statuses that end a recovery
recovery_terminal == {"completed", "cancelled"}
\* the outcomes of client.get_task
GetTaskResults == {"ok", "network", "5xx", "404"}
\* what client.get_task gives: current_task['status'], or the error raised
get_task(res, t) == IF res = "ok" THEN pm.status[t] ELSE res
\* _recover_locked_task returns None after client.get_task: TRUE
recovery_drops_always(res, s) == TRUE
recovery_drops(res, s) == res # "ok" \/ s \in recovery_terminal
\* _get_completion_status
_get_completion_status(role) ==
    IF role \in {"backend_dev", "frontend_dev", "fullstack_dev"} THEN "dev_done"
    ELSE "completed"
\* while self.running
loop_continues_always(r) == TRUE
loop_continues(r) == r.running

NoRunner ==
    [pc |-> "none", running |-> TRUE, task |-> NoTask, role |-> "backend_dev",
     has_instructions |-> TRUE, outcome |-> "none", queried |-> "none",
     retries |-> 0, starts |-> 0]
\* locked: the tasks the PM service holds locked for this agent id
NoPm == [status |-> [t \in Tasks |-> "created"], registered |-> FALSE,
         locked |-> {}]

Stopped == {"none", "dead", "exited", "aborted"}
RunnerAlive == runner.pc \notin Stopped

\* python -m advanced_agent_runner: __init__ sets running and the handlers
RunnerStart ==
    /\ runner.pc \in Stopped
    /\ runner.starts < MaxRunnerStarts
    /\ runner' = [runner EXCEPT !.pc = "startup", !.running = TRUE,
                                !.task = NoTask, !.outcome = "none",
                                !.queried = "none", !.starts = @ + 1]
    /\ UNCHANGED <<lease, pm, mcpVars>>

\* kill -9, power loss: the process is gone, the lease file stays as it is
RunnerCrash ==
    /\ RunnerAlive
    /\ runner' = [runner EXCEPT !.pc = "dead"]
    /\ UNCHANGED <<lease, pm, mcpVars>>

\* _signal_handler
_signal_handler ==
    /\ RunnerAlive
    /\ runner.running
    /\ runner' = [runner EXCEPT !.running = FALSE]
    /\ UNCHANGED <<lease, pm, mcpVars>>

\* other agents and people move a task forward in the PM service; a task
\* that is completed or cancelled is locked for nobody
PmChange(t, s) ==
    /\ Rank(s) > Rank(pm.status[t])
    /\ pm' = [pm EXCEPT !.status[t] = s,
                        !.locked = IF s \in {"completed", "cancelled"}
                                   THEN @ \ {t} ELSE @]
    /\ UNCHANGED <<runner, lease, mcpVars>>

\* run_continuous up to the loop: validate, verify_claude_available,
\* _register_agent; each failure is sys.exit(1)
Startup(ok) ==
    /\ runner.pc = "startup"
    /\ IF ok
       THEN /\ runner' = [runner EXCEPT !.pc = "loop"]
            /\ pm' = [pm EXCEPT !.registered = TRUE]
       ELSE /\ runner' = [runner EXCEPT !.pc = "aborted"]
            /\ pm' = pm
    /\ UNCHANGED <<lease, mcpVars>>

\* while self.running:
LoopTest ==
    /\ runner.pc = "loop"
    /\ runner' = [runner EXCEPT !.pc = IF loop_continues(runner) THEN "recover"
                                       ELSE "cleanup",
                                !.task = NoTask, !.outcome = "none",
                                !.queried = "none"]
    /\ UNCHANGED <<lease, pm, mcpVars>>

\* _recover_locked_task up to client.get_task
Recover ==
    /\ runner.pc = "recover"
    /\ lease' = after_get_locked_task(lease)
    /\ runner' = [runner EXCEPT !.task = get_locked_task(lease),
                                !.pc = IF get_locked_task(lease) # NoTask
                                       THEN "query" ELSE "poll"]
    /\ UNCHANGED <<pm, mcpVars>>

\* _recover_locked_task from the answer of client.get_task on
Query(res) ==
    /\ runner.pc = "query"
    /\ IF recovery_drops(res, pm.status[runner.task])
       THEN /\ lease' = release_lock(lease)
            /\ runner' = [runner EXCEPT !.pc = "poll", !.task = NoTask,
                                        !.queried = get_task(res, runner.task)]
       ELSE /\ lease' = lease
            /\ runner' = [runner EXCEPT !.pc = "pre_task", !.queried = get_task(res, runner.task)]
    /\ UNCHANGED <<pm, mcpVars>>

\* _get_next_task returned nothing (timeout or exception): sleep, continue
PollNone ==
    /\ runner.pc = "poll"
    /\ runner' = [runner EXCEPT !.pc = "loop"]
    /\ UNCHANGED <<lease, pm, mcpVars>>

\* _get_next_task returned task t; persistence.lock_task opens the lease file
PollTask(t) ==
    /\ runner.pc = "poll"
    /\ pm.status[t] = "created"
    /\ runner' = [runner EXCEPT !.pc = "lock_write", !.task = t]
    /\ lease' = Torn(t)
    /\ UNCHANGED <<pm, mcpVars>>

\* persistence.lock_task: json.dump and close
LockWrite ==
    /\ runner.pc = "lock_write"
    /\ lease' = Lease(runner.task)
    /\ runner' = [runner EXCEPT !.pc = "pre_task"]
    /\ UNCHANGED <<pm, mcpVars>>

\* _execute_task: hook_runner.run_pre_task
PreTask(proceed) ==
    /\ runner.pc = "pre_task"
    /\ runner' = [runner EXCEPT !.pc = IF proceed THEN "pm_lock" ELSE "prompt"]
    /\ UNCHANGED <<lease, pm, mcpVars>>

\* _execute_task: ui.prompt_operator; "eof" is input() raising EOFError, which
\* run_continuous catches
PromptChoices ==
    {"Retry checks", "Skip checks and continue", "Release task", "eof"}
Prompt(choice) ==
    /\ runner.pc = "prompt"
    /\ choice = "Retry checks" => runner.retries < MaxRetries
    /\ lease' = IF choice = "Release task" THEN release_lock(lease) ELSE lease
    /\ runner' =
         CASE choice = "Retry checks" ->
                [runner EXCEPT !.pc = "pre_task", !.retries = @ + 1]
           [] choice = "Skip checks and continue" ->
                [runner EXCEPT !.pc = "pm_lock"]
           [] OTHER -> [runner EXCEPT !.pc = "loop"]
    /\ UNCHANGED <<pm, mcpVars>>

\* an _execute_task that goes on to the worktree whatever client.lock_task did
after_pm_lock_anyway(ok) == "worktree"
\* _execute_task after client.lock_task: go on, or "return" to the loop
after_pm_lock(ok) == IF ok THEN "worktree" ELSE "loop"

\* POST /api/v1/tasks/{id}/lock answered success: the service holds task t
\* locked for the agent (its lock table is followed in mode "pm" only)
lock_task(locked, t) == IF mode = "pm" THEN locked \cup {t} ELSE locked

\* _execute_task: client.lock_task
PmLock(ok) ==
    /\ runner.pc = "pm_lock"
    /\ lease' = IF ok THEN lease ELSE release_lock(lease)
    /\ pm' = IF ok THEN [pm EXCEPT !.locked = lock_task(@, runner.task)] ELSE pm
    /\ runner' = [runner EXCEPT !.pc = after_pm_lock(ok),
                                !.outcome = IF ok THEN @ ELSE "pm_lock_failed"]
    /\ UNCHANGED mcpVars

\* _execute_task: the worktree of a major task, then get_instructions_path
Worktree(created) ==
    /\ runner.pc = "worktree"
    /\ created => runner.task \in MajorTasks
    /\ LET l == IF created THEN update_lock(lease) ELSE lease
       IN  IF runner.has_instructions
           THEN /\ lease' = l
                /\ runner' = [runner EXCEPT !.pc = "llm"]
           ELSE /\ lease' = release_lock(l)
                /\ runner' = [runner EXCEPT !.pc = "loop"]
    /\ UNCHANGED <<pm, mcpVars>>

\* _execute_task: claude_executor.execute_task
LlmResults == {"ok", "not_found", "nonzero", "timeout"}
Llm(res) ==
    /\ runner.pc = "llm"
    /\ runner' = [runner EXCEPT !.pc = IF res = "ok" THEN "update" ELSE "release",
                                !.outcome = IF res = "ok" THEN "ok"
                                            ELSE "llm_failed"]
    /\ UNCHANGED <<lease, pm, mcpVars>>

\* _execute_task: client.update_task_status; the service takes the completion
\* status as the end of the agent's work on the task
Update(ok) ==
    /\ runner.pc = "update"
    /\ pm' = IF ok
             THEN [pm EXCEPT !.status[runner.task] =
                                 _get_completion_status(runner.role),
                             !.locked = @ \ {runner.task}]
             ELSE pm
    /\ runner' = [runner EXCEPT !.pc = "release",
                                !.outcome = IF ok THEN "done"
                                            ELSE "update_failed"]
    /\ UNCHANGED <<lease, mcpVars>>

\* the lease _execute_task leaves when it comes to its last lines
lease_at_return(l, outcome) == release_lock(l)
\* _execute_task: post-task hooks, worktree cleanup, persistence.release_lock
Release ==
    /\ runner.pc = "release"
    /\ lease' = lease_at_return(lease, runner.outcome)
    /\ runner' = [runner EXCEPT !.pc = "loop"]
    /\ UNCHANGED <<pm, mcpVars>>

\* _cleanup: release the lease if held, client.delete_agent (errors ignored);
\* a deleted agent holds no lock in the service
Cleanup(ok) ==
    /\ runner.pc = "cleanup"
    /\ lease' = IF is_locked(lease) THEN release_lock(lease) ELSE lease
    /\ pm' = IF ok THEN [pm EXCEPT !.registered = FALSE, !.locked = {}] ELSE pm
    /\ runner' = [runner EXCEPT !.pc = "exited",
                                !.outcome = IF ok THEN "unregistered"
                                            ELSE "unregister_failed"]
    /\ UNCHANGED mcpVars

\* ------------------------------------------- command discovery context
\* "Check up to 3 levels of parent processes"
ScanLevels == 3

\* the environment variables _is_mcp_spawned_context looks for
Markers == {"HEADLESS_PM_FROM_MCP", "MCP_CLIENT_ID", "_MCP_SERVER_RUNNING"}

\* what psutil raises while a parent is obtained or its command line read
Raises == {"NoSuchProcess", "AccessDenied", "Exception"}

\* what the scan meets at one level: no parent, a parent whose command line
\* has one of the MCP patterns, a parent whose command line has none, or an
\* error raised by psutil
Lookups == {"none", "mcp", "other"} \cup Raises

\* anc[i]: the i-th lookup, the last one being the parent.parent() that ends
\* the third round
Ancestries == [1..(ScanLevels + 1) -> Lookups]

\* the try block of _is_mcp_spawned_context from lookup number level on:
\* "found", "clean", or the error raised
RECURSIVE scan(_, _)
scan(anc, level) ==
    IF anc[level] \in Raises THEN anc[level]
    ELSE IF level > ScanLevels THEN "clean"
    ELSE CASE anc[level] = "none" -> "clean"
           [] anc[level] = "mcp" -> "found"
           [] anc[level] = "other" -> scan(anc, level + 1)

\* env: the markers set to a non-empty value
_is_mcp_spawned_context(env, anc) ==
    IF env # {} THEN TRUE
    ELSE CASE scan(anc, 1) = "found" -> TRUE
           [] scan(anc, 1) \in {"NoSuchProcess", "AccessDenied"} -> FALSE
           [] scan(anc, 1) = "Exception" -> TRUE
           [] scan(anc, 1) = "clean" -> FALSE

NoContext == [pc |-> "none", env |-> {}, ancestry |-> <<>>,
              is_mcp |-> FALSE, candidates |-> "none"]

\* _find_headless_pm_command asks for the context
DetectContext ==
    /\ ctx.pc = "call"
    /\ ctx' = [ctx EXCEPT !.is_mcp = _is_mcp_spawned_context(ctx.env, ctx.ancestry),
                          !.pc = "detected"]
    /\ UNCHANGED <<clock, procs, listener, file, tmp, lock, exitLock, mcp, srv,
                   jan, mode, admitted, signals, count, runner, lease, pm>>

\* _find_headless_pm_command builds its candidate list: API-only commands in
\* an MCP context, the normal discovery order (with the global headless-pm
\* and headless-pm-mcp installations) otherwise
BuildCandidates ==
    /\ ctx.pc = "detected"
    /\ ctx' = [ctx EXCEPT !.candidates = IF ctx.is_mcp THEN "api_only" ELSE "normal",
                          !.pc = "built"]
    /\ UNCHANGED <<clock, procs, listener, file, tmp, lock, exitLock, mcp, srv,
                   jan, mode, admitted, signals, count, runner, lease, pm>>

\* ------------------------------------------------------- specifications
Callers == Pids \cup {Janitor}

InitCommon ==
    /\ clock = 1
    /\ listener = NoPid
    /\ tmp = [q \in Callers |-> Absent]
    /\ lock = NoPid
    /\ exitLock = NoPid
    /\ jan = [pc |-> "idle", unlink |-> FALSE]
    /\ admitted = [po \in Ports |-> <<>>]
    /\ signals = {}
    /\ ctx = NoContext
    /\ runner = NoRunner
    /\ lease = NoLease
    /\ pm = NoPm

\* the running system: an empty host, no registry file
Init ==
    /\ InitCommon
    /\ mode = "run"
    /\ procs = [q \in Pids |-> Free]
    /\ file = Absent
    /\ mcp = [q \in Pids |-> NoClient]
    /\ srv = [q \in Pids |-> NoServer]
    /\ count = [starts |-> 0, ids |-> 0, crashes |-> 0, others |-> 0,
                janitor |-> 0, calls |-> 0]

ClientStep(p) ==
    \/ CleanCheck(p) \/ ClientBegin(p) \/ ClientCommit(p)
    \/ Probe(p) \/ WaitPeerConnected(p) \/ WaitPeerTimeout(p)
    \/ DiscoverFail(p) \/ (\E c \in Pids : Spawn(p, c))
    \/ WaitReadyDied(p) \/ WaitReadyHealthy(p) \/ WaitReadyTimeout(p)
    \/ Shutdown(p) \/ Unlink(p) \/ Terminate(p) \/ ClientExit(p)

ServerStep(c) == ServerBegin(c) \/ ServerCommit(c) \/ ServerBind(c)

Next ==
    \/ \E p \in Pids : StartClient(p)
    \/ \E p \in Pids : ClientStep(p)
    \/ \E c \in Pids : ServerStep(c)

Spec == Init /\ [][Next]_vars

\* every client and every server is a process of its own that the host keeps
\* scheduling: its next step is taken; a serving client is sent its shutdown
\* signal or loses its stdio peer in the end
SpecLive ==
    /\ Spec
    /\ \A p \in Pids : WF_vars(ClientStep(p))
    /\ \A c \in Pids : WF_vars(ServerStep(c))

\* the running system on a host whose registry file may be unreadable from
\* the start: every update of it fails
InitFault ==
    /\ InitCommon
    /\ mode = "fault"
    /\ procs = [q \in Pids |-> Free]
    /\ file \in {Absent, Undecodable}
    /\ mcp = [q \in Pids |-> NoClient]
    /\ srv = [q \in Pids |-> NoServer]
    /\ count = [starts |-> 0, ids |-> 0, crashes |-> 0, others |-> 0,
                janitor |-> 0, calls |-> 0]

SpecFault == InitFault /\ [][Next]_vars

\* a burst of client starts, one client at a time, while time passes
InitBurst ==
    /\ InitCommon
    /\ mode = "burst"
    /\ procs = [q \in Pids |-> Free]
    /\ file = Absent
    /\ mcp = [q \in Pids |-> NoClient]
    /\ srv = [q \in Pids |-> NoServer]
    /\ count = [starts |-> 0, ids |-> 0, crashes |-> 0, others |-> 0,
                janitor |-> 0, calls |-> 0]

\* with one client at a time no peer is waited for, and no child dies
BurstStep(p) ==
    \/ CleanCheck(p) \/ ClientBegin(p) \/ ClientCommit(p) \/ Probe(p)
    \/ DiscoverFail(p) \/ (\E c \in Pids : Spawn(p, c))
    \/ WaitReadyHealthy(p) \/ WaitReadyTimeout(p)
    \/ Shutdown(p) \/ Unlink(p) \/ Terminate(p) \/ ClientExit(p)

NextBurst ==
    \/ Tick
    \/ \E p \in Pids : StartClient(p)
    \/ \E p \in Pids : BurstStep(p)
    \/ \E c \in Pids : ServerStep(c)

SpecBurst == InitBurst /\ [][NextBurst]_vars

\* a client on a host where time passes, processes die and unrelated
\* processes appear
InitHost ==
    /\ InitCommon
    /\ mode = "host"
    /\ procs = [q \in Pids |-> Free]
    /\ file = Absent
    /\ mcp = [q \in Pids |-> NoClient]
    /\ srv = [q \in Pids |-> NoServer]
    /\ count = [starts |-> 0, ids |-> 0, crashes |-> 0, others |-> 0,
                janitor |-> 0, calls |-> 0]

HostStep(p) == BurstStep(p) \/ WaitReadyDied(p)

NextHost ==
    \/ Tick
    \/ \E p \in Pids : StartClient(p)
    \/ \E p \in Pids, cmd \in BOOLEAN : StartOther(p, cmd)
    \/ \E p \in Pids : Crash(p)
    \/ \E p \in Pids : HostStep(p)
    \/ \E c \in Pids : ServerStep(c)

SpecHost == InitHost /\ [][NextHost]_vars

\* direct method calls on two constructed clients and by one API server
\* process, on a registry file that is absent, is not a JSON text, is not
\* text at all, or was left by the legacy layout
\* ({api_pid, clients: {id -> {pid, timestamp}}})
LegacyId == MaxPid + 5
LegacyClients(q) == [c \in {LegacyId} |-> [pid |-> q, timestamp |-> 1]]
LegacyDoc(a, cl) == [EmptyDoc EXCEPT !.api_pid = a, !.clients = cl]

\* no legacy document names one PID as the API server and as a client
LegacyDocs ==
    {LegacyDoc(a, cl) :
        a \in {NoPid, 1, 3}, cl \in {EmptyMap, LegacyClients(1), LegacyClients(3)}}

InitFiles ==
    {Absent, Corrupt, Undecodable} \cup
    {Stored(d) : d \in {e \in LegacyDocs :
                          \A k \in DOMAIN e.clients : e.clients[k].pid # e.api_pid}}

InitReg ==
    /\ InitCommon
    /\ mode = "direct"
    /\ procs = [q \in Pids |->
                  IF q \in {1, 2}
                  THEN [kind |-> "mcp_client", created |-> 1, cmd |-> FALSE]
                  ELSE IF q = 3
                       THEN [kind |-> "api_server", created |-> 1, cmd |-> TRUE]
                       ELSE Free]
    /\ file \in InitFiles
    /\ mcp = [q \in Pids |-> IF q \in {1, 2} THEN NewClient(q, "idle") ELSE NoClient]
    /\ srv = [q \in Pids |-> IF q = 3 THEN [pc |-> "idle", parent |-> NoPid]
                             ELSE NoServer]
    /\ count = [starts |-> 0, ids |-> 2, crashes |-> 0, others |-> 0,
                janitor |-> 0, calls |-> 0]

NextReg ==
    \/ \E p \in Pids : StartClient(p)
    \/ \E p \in Pids : Crash(p)
    \/ \E p \in Pids, m \in {"register", "unregister"} : CallClient(p, m)
    \/ \E p \in Pids : ClientBegin(p) \/ ClientCommit(p) \/ Unlink(p)
    \/ \E c \in Pids : CallServer(c) \/ ServerBegin(c) \/ ServerCommit(c)
    \/ JanitorBegin \/ JanitorCommit \/ JanitorUnlink

SpecReg == InitReg /\ [][NextReg]_vars

MaxChecks == 5

\* two constructed clients, one per port or both on one, call
\* _check_startup_rate_limit while time passes; no registry file at first
CallLimiter(p, port) ==
    /\ mode = "direct"
    /\ procs[p].kind = "mcp_client"
    /\ mcp[p].pc = "idle"
    /\ count.calls < MaxChecks
    /\ mcp' = [mcp EXCEPT ![p].pc = "rate_limit", ![p].port = port,
                          ![p].now = clock]
    /\ count' = Bump("calls")
    /\ UNCHANGED <<clock, procs, listener, file, tmp, lock, exitLock, srv, jan,
                   mode, ctx, runner, lease, pm, admitted, signals>>

InitLimiter ==
    /\ InitCommon
    /\ mode = "direct"
    /\ procs = [q \in Pids |->
                  IF q \in {1, 2}
                  THEN [kind |-> "mcp_client", created |-> 1, cmd |-> FALSE]
                  ELSE Free]
    /\ file = Absent
    /\ mcp = [q \in Pids |-> IF q \in {1, 2} THEN NewClient(q, "idle") ELSE NoClient]
    /\ srv = [q \in Pids |-> NoServer]
    /\ count = [starts |-> 0, ids |-> 2, crashes |-> 0, others |-> 0,
                janitor |-> 0, calls |-> 0]

NextLimiter ==
    \/ Tick
    \/ \E p \in Pids, port \in Ports : CallLimiter(p, port)
    \/ \E p \in Pids : ClientBegin(p) \/ ClientCommit(p)

SpecLimiter == InitLimiter /\ [][NextLimiter]_vars

\* ---------------------------------------------------------------- the runner
\* one agent id on one host: no lease file, no task taken yet
InitAgent(m) ==
    /\ clock = 1
    /\ listener = NoPid
    /\ tmp = [q \in Callers |-> Absent]
    /\ lock = NoPid
    /\ exitLock = NoPid
    /\ jan = [pc |-> "idle", unlink |-> FALSE]
    /\ admitted = [po \in Ports |-> <<>>]
    /\ signals = {}
    /\ ctx = NoContext
    /\ mode = m
    /\ procs = [q \in Pids |-> Free]
    /\ file = Absent
    /\ mcp = [q \in Pids |-> NoClient]
    /\ srv = [q \in Pids |-> NoServer]
    /\ count = [starts |-> 0, ids |-> 0, crashes |-> 0, others |-> 0,
                janitor |-> 0, calls |-> 0]
    /\ \E role \in Roles, instr \in BOOLEAN :
          runner = [NoRunner EXCEPT !.role = role, !.has_instructions = instr]
    /\ lease = NoLease
    /\ pm = NoPm

\* one command discovery, in any environment and under any ancestry
InitContext ==
    /\ clock = 1
    /\ listener = NoPid
    /\ tmp = [q \in Callers |-> Absent]
    /\ lock = NoPid
    /\ exitLock = NoPid
    /\ jan = [pc |-> "idle", unlink |-> FALSE]
    /\ admitted = [po \in Ports |-> <<>>]
    /\ signals = {}
    /\ runner = NoRunner
    /\ lease = NoLease
    /\ pm = NoPm
    /\ mode = "context"
    /\ procs = [q \in Pids |-> Free]
    /\ file = Absent
    /\ mcp = [q \in Pids |-> NoClient]
    /\ srv = [q \in Pids |-> NoServer]
    /\ count = [starts |-> 0, ids |-> 0, crashes |-> 0, others |-> 0,
                janitor |-> 0, calls |-> 0]
    /\ \E env \in SUBSET Markers, anc \in Ancestries :
          ctx = [NoContext EXCEPT !.pc = "call", !.env = env, !.ancestry = anc]

NextContext == DetectContext \/ BuildCandidates

SpecContext == InitContext /\ [][NextContext]_vars

\* the steps of the runner's own code
RunnerProgram ==
    \/ \E ok \in BOOLEAN : Startup(ok)
    \/ LoopTest
    \/ Recover
    \/ \E res \in GetTaskResults : Query(res)
    \/ PollNone
    \/ \E t \in Tasks : PollTask(t)
    \/ LockWrite
    \/ \E proceed \in BOOLEAN : PreTask(proceed)
    \/ \E choice \in PromptChoices : Prompt(choice)
    \/ \E ok \in BOOLEAN : PmLock(ok)
    \/ \E created \in BOOLEAN : Worktree(created)
    \/ \E res \in LlmResults : Llm(res)
    \/ \E ok \in BOOLEAN : Update(ok)
    \/ Release
    \/ \E ok \in BOOLEAN : Cleanup(ok)

\* the runner against a PM service whose locks are not looked at
InitRunner == InitAgent("agent")

\* the runner against a PM service that keeps the lock client.lock_task took
InitRunnerPm == InitAgent("pm")

NextRunner ==
    \/ RunnerStart
    \/ RunnerCrash
    \/ _signal_handler
    \/ \E t \in Tasks, s \in Statuses : PmChange(t, s)
    \/ RunnerProgram

SpecRunner == InitRunner /\ [][NextRunner]_vars

\* the same runner, with the lock table of the PM service followed
SpecRunnerPm == InitRunnerPm /\ [][NextRunner]_vars

\* the runner is a single-threaded loop of blocking calls, each of which
\* returns: a process that is not killed keeps taking its next step
SpecRunnerLive == SpecRunner /\ WF_vars(RunnerProgram)

\* ================================================================= claims
\* an MCP client process that is alive
IsClient(p) == procs[p].kind = "mcp_client"

\* client q holds its own entry in the registry file
Registered(q) ==
    /\ procs[q].kind = "mcp_client"
    /\ file.state = "ok"
    /\ q \in DOMAIN file.doc.processes
    /\ file.doc.processes[q].type = "mcp_client"
    /\ file.doc.processes[q].client_id = mcp[q].client_id

\* the registry file holds no process entry
RegistryEmpty == file.state = "absent" \/ DOMAIN file.doc.processes = {}

\* C1: of the clients that run ensure_api_available side by side from an
\* empty registry with no server running, at most one spawns a server
\* process: never are two of them waiting for a child each has spawned.
C1_AtMostOneSpawns ==
    Cardinality({p \in Pids : IsClient(p) /\ mcp[p].spawned
                              /\ mcp[p].pc = "wait_ready"}) <= 1

\* C2: _perform_cleanup never signals the API server while another MCP
\* client holds its entry in the registry of that port.
C2_NoTerminateWhileRegistered ==
    \A s \in signals : (s.sent /\ s.kind = "api_server") => ~s.others

\* C3: when a client that connected to its peer's server has finished its
\* cleanup as the last MCP client alive, the API server is gone and the
\* registry holds no process entry.
C3_LastExitTerminates ==
    \A p \in Pids :
        (IsClient(p) /\ mcp[p].pc = "done" /\ mcp[p].role = "connected"
           /\ Live("mcp_client") = {p})
        => (Live("api_server") = {} /\ RegistryEmpty)

C5_PidReuseProtected ==
    \A s \in signals : (s.drift \/ ~s.cmd) => ~s.sent

\* C5 witness: the PID was recycled to an unrelated process whose command
\* line matches, created more than 1 s after the recorded start; the cleanup
\* found it and left it alone.
C5_Witness ==
    \E s \in signals : s.kind = "other" /\ s.drift /\ s.cmd /\ ~s.sent

\* the admitted attempts that fall in the 5-second window ending at the
\* i-th admitted attempt
InWindow(i) ==
    {j \in 1..Len(admitted[DefaultPort]) :
        /\ admitted[DefaultPort][j] > admitted[DefaultPort][i] - RateWindow
        /\ admitted[DefaultPort][j] <= admitted[DefaultPort][i]}

\* C6: in any 5-second window at most 3 startup attempts on the port are
\* admitted by _check_startup_rate_limit, whatever the clients do to the
\* registry in between.
C6_AtMostThreeAdmitted ==
    \A i \in 1..Len(admitted[DefaultPort]) : Cardinality(InWindow(i)) <= RateLimit

\* C7: a client that has spawned a server was admitted by the rate-limit
\* check of the same invocation, and a client whose check was rejected has
\* failed without discovering a command or spawning.
C7_SpawnOnlyAfterAdmission ==
    \A p \in Pids :
        /\ mcp[p].spawned => (mcp[p].checked /\ mcp[p].rate_ok)
        /\ (mcp[p].checked /\ ~mcp[p].rate_ok)
             => (mcp[p].pc = "failed" /\ ~mcp[p].discovered /\ ~mcp[p].spawned)

\* C7 witness: the limiter rejected a client's attempt (three were admitted
\* in the window before it) and its ensure_api_available has failed.
C7_Witness ==
    \E p \in Pids :
        /\ IsClient(p) /\ mcp[p].checked /\ ~mcp[p].rate_ok /\ mcp[p].pc = "failed"
        /\ Len(admitted[DefaultPort]) >= RateLimit

\* C8: the registry file never holds a partial document, and every step of
\* an update that changes what a reader finds at the path replaces one
\* complete document (or no file) by the complete document the lock holder
\* wrote; the only other change of the path is the removal of the file.
C8_ReaderSeesWhole ==
    [][/\ file'.state \in {"absent", "ok"}
       /\ file' # file =>
            \/ file' = Absent
            \/ \E c \in Callers :
                  /\ lock = c /\ lock' = NoPid
                  /\ tmp[c].state = "ok"
                  /\ file' = Stored(tmp[c].doc)]_vars

\* C8 witness: an update is in flight, its new document written in full
\* beside the file, while the path still holds the complete old document.
C8_Witness ==
    \E c \in Callers :
        /\ lock = c /\ tmp[c].state = "ok"
        /\ file.state = "ok" /\ file.doc # tmp[c].doc

\* the client has run the remove_client update of its own unregistration
Unregistered(q) == mcp[q].pc \in {"unlink", "terminate", "done", "none"}

\* C9: the entry of a registered client stays in the registry until the
\* client unregisters or its process ends, whatever its peers do.
C9_NoLostEntry ==
    [][\A q \in Pids :
          (Registered(q) /\ procs'[q].kind = "mcp_client" /\ ~Unregistered(q)')
          => Registered(q)']_vars

\* the types under which document d holds PID q, in the flat map and in the
\* legacy fields
TypesOf(d, q) ==
    {d.processes[k].type : k \in {k \in DOMAIN d.processes : k = q}}
    \cup (IF d.api_pid = q THEN {"api_server"} ELSE {})
    \cup (IF \E c \in DOMAIN d.clients : d.clients[c].pid = q
          THEN {"mcp_client"} ELSE {})

\* the step in which client p computes its registration
ClientRegisters(p) ==
    /\ IsClient(p) /\ mcp[p].pc = "register"
    /\ mcp[p].ph = "call" /\ mcp'[p].ph = "locked"

\* the step in which API server c runs register_api_server's update
ServerRegisters(c) ==
    /\ procs[c].kind = "api_server"
    /\ ~_read_json_raises(file)
    /\ srv[c].pc = "startup" /\ srv'[c].pc \in {"locked", "idle", "bind"}

\* C10: the registry never holds a PID under two types; a registration
\* whose PID is present under the other type is rejected and the PID stays
\* under the type (and, in the flat map, the entry) it had; a registration
\* whose PID is absent or present under the same type is accepted.
C10_OneTypePerPid ==
    /\ [](\A q \in Pids : Cardinality(TypesOf(file.doc, q)) <= 1)
    /\ [][\A p \in Pids :
            /\ ClientRegisters(p) =>
                 LET old == _read_json_safe(file, ClientsDefault)
                     new == tmp'[p].doc
                 IN IF "api_server" \in TypesOf(old, p)
                    THEN /\ TypesOf(new, p) = {"api_server"}
                         /\ p \in DOMAIN old.processes
                              => new.processes[p] = old.processes[p]
                    ELSE /\ TypesOf(new, p) = {"mcp_client"}
                         /\ new.processes[p].client_id = mcp[p].client_id
            /\ ServerRegisters(p) =>
                 LET old == _read_json_safe(file, EmptyDoc)
                 IN IF "mcp_client" \in TypesOf(old, p)
                    THEN /\ srv'[p].pc # "locked"
                         /\ file' = file /\ tmp' = tmp
                    ELSE /\ srv'[p].pc = "locked"
                         /\ TypesOf(tmp'[p].doc, p) = {"api_server"}]_vars

\* C10 witness: a client's registration is being written back with its PID
\* still under the type api_server: the registration was rejected.
C10_Witness ==
    \E p \in Pids :
        /\ IsClient(p) /\ mcp[p].pc = "register" /\ mcp[p].ph = "locked"
        /\ TypesOf(tmp[p].doc, p) = {"api_server"}

\* primary_api of document d is null or names an api_server entry of d
PrimaryOk(d) ==
    \/ d.primary_api = NoPid
    \/ /\ d.primary_api \in DOMAIN d.processes
       /\ d.processes[d.primary_api].type = "api_server"

\* C11: in every registry document an operation has written, primary_api
\* is null or the PID of an entry of processes whose type is api_server.
C11_PrimaryApiValid ==
    file.state = "ok" => PrimaryOk(file.doc)

\* C12: every document a read-modify-write of the registry computes holds
\* process entries only for PIDs that exist on the host at that moment.
C12_StalePruned ==
    [][\A c \in Callers :
          (tmp'[c] # tmp[c] /\ tmp'[c].state = "ok")
          => DOMAIN tmp'[c].doc.processes \subseteq Ex]_vars

\* the API servers document d registers that are alive on the host
LiveApis(d) ==
    {q \in DOMAIN d.processes : d.processes[q].type = "api_server" /\ q \in Ex}

\* C20: the should_start_api that _register_mcp_client derives from the
\* document it has just computed is true exactly when that document
\* registers no live API server.
C20_ShouldStartIffNoLiveApi ==
    [][\A p \in Pids :
          ClientRegisters(p)
          => (should_start(tmp'[p].doc) <=> LiveApis(tmp'[p].doc) = {})]_vars

\* ---------------------------------------------------- claims on the runner
\* the step in which _recover_locked_task gets the answer of client.get_task
QueryStep == runner.pc = "query" /\ runner'.queried # "none"

\* C13: a runner that begins a loop iteration with a lease file that loads
\* asks the PM service for the leased task before it asks for new work; when
\* the service answers with a status other than completed and cancelled the
\* runner enters the execution path with that same task and keeps the lease,
\* and when it answers completed or cancelled the runner releases the lease
\* and polls.
C13_RecoveryQueriesFirst ==
    [][/\ (runner.pc = "recover" /\ runner'.pc \in {"query", "poll"}
            /\ lease.state = "ok")
           => (runner'.pc = "query" /\ runner'.task = lease.task
               /\ lease' = lease)
       /\ (QueryStep /\ runner'.queried \in Statuses)
           => IF pm.status[runner.task] \in {"completed", "cancelled"}
              THEN runner'.pc = "poll" /\ lease'.state = "absent"
              ELSE runner'.pc = "pre_task" /\ runner'.task = runner.task
                   /\ lease' = lease]_vars

\* a restarted runner is back in the execution path with the task it held
C13_Witness ==
    /\ runner.starts > 1
    /\ runner.pc = "pre_task"
    /\ runner.queried = "under_work"
    /\ lease = Lease(runner.task)
    /\ pm.status[runner.task] = "under_work"

\* the lease file names a task that the PM service has neither completed nor
\* cancelled
HoldsLive(l) == l.state = "ok" /\ pm.status[l.task] \notin {"completed", "cancelled"}

\* C14: the runner is in get_next_task only while it holds no lease on a task
\* that is still non-terminal, and the lease file is never rewritten for
\* another task while the task it names is still non-terminal; with one lease
\* file per agent, at most one task is leased and non-terminal at a time.
C14_OneLiveLease ==
    [][/\ runner'.pc = "poll" => ~HoldsLive(lease)'
       /\ (lease'.state # "absent" /\ lease'.task # lease.task)
           => ~HoldsLive(lease)]_vars

\* a restarted runner found its leased task completed or cancelled, released
\* the lease and is asking for new work
C14_Witness ==
    /\ runner.starts > 1
    /\ runner.pc = "poll"
    /\ runner.queried \in {"completed", "cancelled"}
    /\ lease = NoLease
    /\ \E t \in Tasks : pm.status[t] = "created"

\* the statuses that are terminal for a role: completed, cancelled, and the
\* completion status the role writes with what follows it
TerminalFor(role) ==
    {s \in Statuses : Rank(s) >= Rank(_get_completion_status(role))}

\* C15: when recovery learns that the leased task already has a status that is
\* terminal for the runner's role (dev_done included for a developer role),
\* it releases the lease and does not enter the execution path; the LLM
\* subprocess is not started on a task that recovery found in a status
\* terminal for the role.
C15_TerminalLeaseReleased ==
    [][/\ (QueryStep /\ runner'.queried \in TerminalFor(runner.role))
           => (runner'.pc = "poll" /\ lease'.state = "absent")
       /\ runner'.pc = "llm" => runner'.queried \notin TerminalFor(runner.role)]_vars

\* C16: _execute_task deletes the lease only after it has written the
\* completion status: when the LLM subprocess failed or the status update
\* failed, the lease the runner held is still there when _execute_task
\* returns.
C16_LeaseKeptOnFailure ==
    [][(runner.pc = "release" /\ runner'.pc = "loop"
        /\ runner.outcome \in {"llm_failed", "update_failed"})
       => lease' = lease]_vars

\* C17: when the status refresh of lease recovery fails with a network error
\* or a 5xx answer the lease file is left as it is; an error releases the lease
\* only when it is a 404.
C17_LeaseKeptOnPmError ==
    [][(QueryStep /\ runner'.queried \in {"network", "5xx"})
       => lease' = lease]_vars

\* C19: once the shutdown flag is set, the runner takes up no new task: when
\* get_next_task returns a task after the flag was set (the signal came while
\* the runner was blocked in the long-poll), the runner writes no lease for it,
\* and so does not go on to lock it in the PM service or to start the LLM.
C19_NoNewTaskAfterSignal ==
    [][(runner.pc = "poll" /\ runner'.pc = "lock_write") => runner.running]_vars

\* the runner is inside the loop of run_continuous
InLoop == RunnerAlive /\ runner.pc # "startup"

UnregisterBegins(p) ==
    mcp[p].pc = "unregister" /\ mcp[p].ph = "call" /\ mcp'[p].ph = "locked"
UnregisterReturns(p) ==
    mcp[p].pc = "unregister" /\ mcp[p].ph = "locked" /\ mcp'[p].pc = "unlink"
\* the entry under PID p in map ps is the MCP client with identity cid
OwnEntry(ps, p, cid) == p \in DOMAIN ps /\ ps[p].client_id = cid

\* C21: remove_client deletes the entry under the caller's PID exactly when
\* that entry carries the caller's client_id, and deletes no other entry;
\* _unregister_mcp_client returns should_cleanup_api = TRUE exactly when the
\* document it wrote holds no mcp_client entry and the caller is the client
\* that started the API.
C21_UnregisterOwnEntry ==
    [][\A p \in Pids :
         /\ UnregisterBegins(p) =>
              LET before == _read_json_safe(file, ClientsDefault).processes
                  after == tmp'[p].doc.processes
              IN /\ OwnEntry(before, p, mcp[p].client_id) => p \notin DOMAIN after
                 /\ (p \in DOMAIN before /\ ~OwnEntry(before, p, mcp[p].client_id))
                      => (p \in DOMAIN after /\ after[p] = before[p])
                 /\ \A q \in DOMAIN before \ {p} :
                      q \in DOMAIN after /\ after[q] = before[q]
         /\ UnregisterReturns(p) =>
              (mcp'[p].should_cleanup_api
                 <=> /\ \A q \in DOMAIN tmp[p].doc.processes :
                           tmp[p].doc.processes[q].type # "mcp_client"
                     /\ mcp[p].we_started_api)]_vars

\* the client that started the API has unregistered as the last client and
\* was told to clean up
C21_Witness ==
    \E p \in Pids :
        /\ mcp[p].pc = "unlink"
        /\ mcp[p].we_started_api
        /\ mcp[p].should_cleanup_api
        /\ file.state = "ok" /\ p \notin DOMAIN file.doc.processes

\* a registry with nothing in it: no file, or a document without entries
EmptyRegistry(f) ==
    \/ f.state = "absent"
    \/ /\ f.state = "ok"
       /\ DOMAIN f.doc.processes = {}
       /\ f.doc.api_pid = NoPid
       /\ DOMAIN f.doc.clients = {}
RegisterBegins(p) ==
    mcp[p].pc = "register" /\ mcp[p].ph = "call" /\ mcp'[p].ph = "locked"
\* the registry holds the entry of client p and nothing else
OnlyEntryOf(ps, p) == DOMAIN ps = {p} /\ OwnEntry(ps, p, mcp[p].client_id)

\* C22: registering client p in an empty or absent registry writes a document
\* whose only entry is p's, and unregistering p from a registry whose only
\* entry is p's writes a document without entries; after the unregistration
\* has returned the registry file is absent or has no process entries.
C22_RegisterUnregisterRoundTrip ==
    [][\A p \in Pids :
         /\ (RegisterBegins(p) /\ EmptyRegistry(file))
              => OnlyEntryOf(tmp'[p].doc.processes, p)
         /\ (UnregisterBegins(p) /\ file.state = "ok"
             /\ OnlyEntryOf(file.doc.processes, p))
              => DOMAIN tmp'[p].doc.processes = {}
         /\ (UnregisterReturns(p) /\ DOMAIN tmp[p].doc.processes = {})
              => EmptyRegistry(file')]_vars

\* two calls were made on an absent or empty registry, the second one an
\* unregistration that has returned, and the registry document has no entries
C22_Witness ==
    \E p \in Pids :
        /\ mode = "direct"
        /\ count.calls = 2
        /\ mcp[p].pc = "unlink"
        /\ file.state = "ok"
        /\ file.doc.has_processes
        /\ DOMAIN file.doc.processes = {}

\* the entries of document d that belong to processes that are alive
LiveEntries(d) == {q \in DOMAIN d.processes : q \in Ex}

\* C23: the registry file is deleted only when it has become empty: whenever a
\* step removes the file, the document it held had no entry of a live process.
C23_DeletedOnlyWhenEmpty ==
    [][(file.state = "ok" /\ file'.state = "absent")
       => LiveEntries(file.doc) = {}]_vars

\* the lifespan shutdown of API server c, on its own after it found the port
\* taken: unregister_api_server has been called and the process has ended
ServerShutsDown(c) == srv[c].pc = "bind" /\ srv'[c].pc = "none" /\ mcp' = mcp

\* C24: after an API server has called unregister_api_server at shutdown, the
\* registry document has no entry under its PID, primary_api is not its PID
\* (it is null or the PID of a registered api_server entry), and the entries of
\* the other processes are as they were.
C24_ServerUnregisters ==
    [][\A c \in Pids :
         (ServerShutsDown(c) /\ file'.state = "ok")
         => /\ c \notin DOMAIN file'.doc.processes
            /\ PrimaryOk(file'.doc) /\ file'.doc.primary_api # c
            /\ \A q \in DOMAIN file.doc.processes \ {c} :
                 q \in DOMAIN file'.doc.processes
                 /\ file'.doc.processes[q] = file.doc.processes[q]]_vars

\* ------------------------------------------------------------------ C25
\* the first health probe of ensure_api_available is answered 200
ProbeAnswered(p) ==
    /\ procs[p].kind = "mcp_client"
    /\ mcp[p].pc = "probe" /\ Healthy
    /\ mcp'[p].pc # "probe"

\* the registry holds the caller's own mcp_client entry
RegisteredClient(f, p, cid) ==
    /\ f.state = "ok"
    /\ p \in DOMAIN f.doc.processes
    /\ f.doc.processes[p].type = "mcp_client"
    /\ f.doc.processes[p].client_id = cid

\* the process entries of the registry file as a reader finds them
ProcessesOf(f) == IF f.state = "ok" THEN f.doc.processes ELSE EmptyMap

StartedReturns(p) ==
    /\ procs[p].kind = "mcp_client"
    /\ mcp[p].pc = "wait_ready" /\ mcp'[p].pc = "serving"

\* the registry holds client p, API server c, and nothing else
ClientAndServer(f, p, c) ==
    /\ f.state = "ok"
    /\ DOMAIN f.doc.processes = {p, c} /\ p # c
    /\ f.doc.processes[p].type = "mcp_client"
    /\ f.doc.processes[c].type = "api_server"
    /\ f.doc.primary_api = c

\* C26: the first client on a host with no registry file, no peer and a free
\* port: when its ensure_api_available returns success the registry holds
\* one mcp_client entry (the caller) and one api_server entry (the spawned
\* child), primary_api is the child's PID, and the caller is the owner
C26_SoloAutoStart ==
    [][\A p \in Pids :
         (StartedReturns(p) /\ count.starts = 1) =>
           /\ ClientAndServer(file', p, mcp[p].api_process)
           /\ file'.doc.processes[p].client_id = mcp[p].client_id
           /\ listener' = mcp[p].api_process
           /\ mcp'[p].we_started_api
           /\ mcp'[p].api_server_pid = mcp[p].api_process]_vars

C26_Witness ==
    \E p \in Pids :
        /\ count.starts = 1
        /\ mcp[p].pc = "serving" /\ mcp[p].role = "owner" /\ mcp[p].spawned
        /\ mcp[p].we_started_api
        /\ ClientAndServer(file, p, mcp[p].api_process)
        /\ listener = mcp[p].api_process

\* ------------------------------------------------------------------ C27
\* the wait for /health finds that the spawned child has exited
ChildDiedReturns(p) ==
    /\ procs[p].kind = "mcp_client"
    /\ mcp[p].pc = "wait_ready" /\ ~ChildAlive(p)
    /\ mcp'[p].pc # "wait_ready"

\* C27: when the spawned child has exited before /health answered,
\* ensure_api_available returns failure, the caller is not the lifecycle
\* owner, and the registry holds no api_server entry under the child's PID
C27_DeadChildLeavesNoEntry ==
    [][\A p \in Pids :
         ChildDiedReturns(p) =>
           /\ mcp'[p].pc = "failed"
           /\ ~mcp'[p].we_started_api
           /\ mcp[p].api_process \notin DOMAIN ProcessesOf(file')]_vars

\* ------------------------------------------------------------------ C28
\* ensure_api_available of client p is past its probes
Returned(p) == mcp[p].pc \in {"serving", "failed"}

\* C28: a client started with HEADLESS_PM_NO_AUTOSTART set never spawns a
\* server and never reaches the rate limiter; its ensure_api_available
\* returns success only on a step where /health answers 200, and returns
\* failure when its probes are over without an answer
C28_NoAutostart ==
    [][\A p \in Pids :
         (procs'[p].kind = "mcp_client" /\ mcp'[p].no_autostart) =>
           /\ ~mcp'[p].spawned /\ mcp'[p].api_process = NoPid
           /\ ~mcp'[p].checked
           /\ mcp'[p].pc \notin {"rate_limit", "discover", "wait_ready"}
           /\ (~Returned(p) /\ mcp'[p].pc = "serving") =>
                (Healthy /\ ~mcp'[p].we_started_api)
           /\ (mcp[p].pc \in {"probe", "wait_peer"} /\ mcp'[p].pc # mcp[p].pc
               /\ ~Healthy /\ mcp'[p].pc # "wait_peer") =>
                mcp'[p].pc = "failed"]_vars

C28_Witness ==
    \E p \in Pids :
        /\ procs[p].kind = "mcp_client" /\ mcp[p].no_autostart
        /\ mcp[p].pc = "failed" /\ ~mcp[p].checked /\ ~mcp[p].spawned
        /\ mcp[p].should_start_api
        /\ listener = NoPid

\* ------------------------------------------------------------------ C29
\* C29: when no environment marker is set and the ancestry scan ends in an
\* error of any kind, _is_mcp_spawned_context answers True and the candidate
\* commands are the API-only ones
C29_ErrorsMeanMcpContext ==
    (ctx.pc \in {"detected", "built"} /\ ctx.env = {}
     /\ scan(ctx.ancestry, 1) \in Raises)
      => /\ ctx.is_mcp
         /\ ctx.pc = "built" => ctx.candidates = "api_only"

\* ------------------------------------------------------------------ C30
\* _register_mcp_client of client p runs its atomic_json_update
RegistrationRuns(p) ==
    /\ procs[p].kind = "mcp_client"
    /\ mcp[p].pc = "register" /\ mcp[p].ph = "call"
    /\ procs'[p].kind = "mcp_client"
    /\ mcp'[p] # mcp[p]

\* the atomic_json_update of _register_mcp_client completes its write
RegistrationReturns(p) ==
    /\ mcp[p].pc = "register" /\ mcp[p].ph = "locked"
    /\ procs'[p].kind = "mcp_client"
    /\ mcp'[p].ph = "call"

\* a registry file that is missing or cannot be parsed
Unparseable(f) == f.state \in {"absent", "corrupt", "undecodable"}

\* C30: a registration that finds the registry file missing or unparseable
\* applies add_client to the default document and writes the result: the
\* document written holds the caller's entry and nothing else, no error
\* reaches the caller, and the file is well formed once the write is complete
C30_CorruptRegistryRecovered ==
    [][\A p \in Pids :
         /\ (RegistrationRuns(p) /\ Unparseable(file)) =>
              /\ mcp'[p].ph = "locked"
              /\ tmp'[p] = Stored(add_client(ClientsDefault, p, mcp[p].client_id,
                                             Ex, clock).doc)
              /\ OnlyEntryOf(tmp'[p].doc.processes, p)
         /\ RegistrationReturns(p) =>
              /\ file'.state = "ok"
              /\ mcp'[p].should_start_api \in BOOLEAN]_vars

\* ------------------------------------------------------------------ C31
\* the runner process is killed while persistence.lock_task has the lease
\* file open for writing
KilledInLockTask == runner.pc = "lock_write" /\ runner'.pc = "dead"

\* C31: a runner killed during lock_task leaves a lease file that is absent
\* or holds a complete lease, never an empty or cut-short document
C31_LeaseWriteAtomic ==
    [][KilledInLockTask => lease'.state \in {"absent", "ok"}]_vars


\* ------------------------------------------------------------------ C32
\* client p runs a registry update and the update fails with an error
UpdateFails(p) ==
    /\ procs[p].kind = "mcp_client" /\ procs'[p].kind = "mcp_client"
    /\ mcp[p].pc \in UpdatePcs /\ mcp[p].ph = "call"
    /\ mcp'[p] # mcp[p]
    /\ _read_json_raises(file)

\* C32: when a registry update fails, _register_mcp_client answers
\* should_start True, _check_startup_rate_limit admits the startup and
\* _unregister_mcp_client answers should_cleanup False; the registry and its
\* lock are left alone, and a client whose unregistration answered False
\* ends its cleanup without signalling any process
C32_SafeDefaults ==
    [][\A p \in Pids :
         /\ UpdateFails(p) =>
              /\ mcp[p].pc = "register" => mcp'[p].should_start_api
              /\ mcp[p].pc = "rate_limit" =>
                    (mcp'[p].rate_ok /\ mcp'[p].pc = "discover")
              /\ mcp[p].pc = "unregister" =>
                    (~mcp'[p].should_cleanup_api /\ mcp'[p].pc = "unlink")
              /\ file' = file /\ lock' = lock
         /\ (procs[p].kind = "mcp_client" /\ mcp[p].pc = "unlink"
             /\ ~mcp[p].should_cleanup_api /\ mcp'[p] # mcp[p]) =>
              /\ mcp'[p].pc # "terminate"
              /\ procs' = procs /\ listener' = listener /\ file' = file]_vars

C32_Witness ==
    \E p \in Pids :
        /\ mcp[p].pc = "done" /\ mcp[p].role = "owner" /\ mcp[p].spawned
        /\ file.state = "undecodable"
        /\ listener # NoPid /\ srv[listener].parent = p

\* ------------------------------------------------------------------ C33
\* client.lock_task raised in this step
PmLockFails == runner.pc = "pm_lock" /\ runner'.outcome = "pm_lock_failed"

\* C33: when locking the task in the PM service fails, the runner deletes
\* its lease file and is back at the top of its loop: no worktree, no LLM
\* run, and nothing written to the PM service
C33_PmLockFailureReleases ==
    [][PmLockFails =>
         /\ lease' = NoLease
         /\ runner'.pc = "loop"
         /\ pm' = pm]_vars

C33_Witness ==
    /\ runner.pc = "loop" /\ runner.outcome = "pm_lock_failed"
    /\ runner.task # NoTask
    /\ lease = NoLease
    /\ pm.status[runner.task] = "created"

\* ------------------------------------------------------------------ C34
\* the worktree of a major task was created and update_lock has run
LeaseAnnotated ==
    /\ runner.pc = "worktree" /\ runner.task \in MajorTasks
    /\ lease.state = "ok"
    /\ lease' # lease
    /\ runner'.pc \in {"llm", "loop"} /\ runner.has_instructions

\* C34: after update_lock(worktree_path=..., branch_name=...) the lease file
\* still loads and still names the same task
C34_AnnotatedLeaseValid ==
    [][LeaseAnnotated =>
         /\ lease'.state = "ok"
         /\ get_locked_task(lease') = get_locked_task(lease)]_vars

\* ------------------------------------------------------------------ C35
\* the clients that hold themselves to be the owner of server process s
OwnersOf(s) ==
    {p \in Pids : /\ procs[p].kind = "mcp_client"
                  /\ mcp[p].we_started_api
                  /\ mcp[p].api_server_pid = s}

\* C35: a client that marks itself as having started the API has recorded
\* the PID of the child it spawned itself, and a running server has at most
\* one such client
C35_OwnershipExclusive ==
    /\ \A p \in Pids :
         (procs[p].kind = "mcp_client" /\ mcp[p].we_started_api
          /\ mcp[p].api_server_pid # NoPid)
           => srv[mcp[p].api_server_pid].parent = p
    /\ \A s \in Pids :
         procs[s].kind = "api_server" => Cardinality(OwnersOf(s)) <= 1


\* ------------------------------------------------------------------ C36
\* the registry holds an mcp_client entry written by the client with id cid
HasEntryOf(cid) ==
    /\ file.state = "ok"
    /\ \E q \in DOMAIN file.doc.processes :
          /\ file.doc.processes[q].type = "mcp_client"
          /\ file.doc.processes[q].client_id = cid

\* C36: the entry of every client that has registered itself is removed from
\* the registry in the end, on every way run() can end
C36_EntryEventuallyRemoved ==
    \A cid \in 1..MaxStarts : HasEntryOf(cid) ~> ~HasEntryOf(cid)

\* ------------------------------------------------------------------ C37
\* ensure_api_available of client p returns failure after subprocess.Popen
FailsAfterSpawn(p) ==
    /\ procs[p].kind = "mcp_client"
    /\ procs'[p].kind = "mcp_client"
    /\ mcp[p].spawned
    /\ mcp[p].pc = "wait_ready"
    /\ mcp'[p].pc = "failed"

\* C37: when ensure_api_available returns failure after having spawned a
\* child, that child is no longer a running process of this supervisor
C37_NoOrphanedChild ==
    [][\A p \in Pids :
         FailsAfterSpawn(p) =>
             LET c == mcp[p].api_process IN
             ~(procs'[c].kind = "api_server" /\ srv'[c].parent = p)]_vars

C37_Witness ==
    \E p \in Pids :
        /\ procs[p].kind = "mcp_client"
        /\ mcp[p].pc = "failed"
        /\ mcp[p].spawned
        /\ mcp[p].api_process = NoPid

\* ------------------------------------------------------------------ C38
\* the step in which register_api_pid, run by atomic_json_update for API
\* server c, raises its ValueError
UpdateRaises(c) ==
    /\ procs[c].kind = "api_server"
    /\ procs'[c].kind = "api_server"
    /\ srv[c].pc = "startup"
    /\ srv'[c].pc # "startup"
    /\ ~_read_json_raises(file)
    /\ register_api_pid(_read_json_safe(file, EmptyDoc), c, Ex, clock).raised

\* C38: when the update function raises, the registry file and the
\* temporary files are as they were before the call and the inter-process
\* lock is free, so that the next update can take it
C38_RaiseLeavesFileAndLock ==
    [][\A c \in Pids :
         UpdateRaises(c) =>
             /\ file' = file
             /\ tmp' = tmp
             /\ lock' = NoPid]_vars

\* an API server past its rejected registration: its PID is still held by
\* the entry of another type and the lock is free
C38_Witness ==
    \E c \in Pids :
        /\ procs[c].kind = "api_server"
        /\ srv[c].pc \notin {"startup", "locked"}
        /\ "mcp_client" \in TypesOf(file.doc, c)
        /\ "api_server" \notin TypesOf(file.doc, c)
        /\ lock = NoPid

\* ------------------------------------------------------------------ C39
\* the step in which _check_startup_rate_limit of client p returns what the
\* update function decided
RateCheckReturns(p) ==
    /\ procs[p].kind = "mcp_client"
    /\ procs'[p].kind = "mcp_client"
    /\ mcp[p].pc = "rate_limit"
    /\ mcp[p].ph = "locked"
    /\ mcp'[p].ph = "call"

\* the attempts on port po admitted later than five seconds before time t
AdmittedSince(po, t) ==
    {j \in 1..Len(admitted[po]) : admitted[po][j] > t - RateWindow}

\* C39: _check_startup_rate_limit(port) returns false only if at least 3
\* attempts on that port were admitted in the 5 seconds before the call; a
\* block signal left in the registry and the attempts and rejections on
\* another port never make it return false
C39_NoSpuriousRejection ==
    [][\A p \in Pids :
         (RateCheckReturns(p) /\ ~mcp'[p].rate_ok) =>
             Cardinality(AdmittedSince(mcp[p].port, mcp[p].now)) >= RateLimit]_vars

\* a call on one port was rejected after three admitted attempts on it and
\* an admitted attempt on the other port
C39_Witness ==
    \E p \in Pids :
        /\ procs[p].kind = "mcp_client"
        /\ mcp[p].pc = "idle"
        /\ mcp[p].checked /\ ~mcp[p].rate_ok
        /\ Len(admitted[mcp[p].port]) >= RateLimit
        /\ \E q \in Ports \ {mcp[p].port} : Len(admitted[q]) >= 1

\* ------------------------------------------------------------------ C40
\* the step in which the runner deletes the lease file it held on task t
LeaseDeleted(t) ==
    /\ RunnerAlive
    /\ is_locked(lease)
    /\ lease.task = t
    /\ ~is_locked(lease')

\* C40: when the runner deletes its lease on a task without having written
\* a completion status for it, the PM service does not hold that task locked
\* for the runner while the task is not terminal
C40_LeaseAndPmLockConsistent ==
    [][\A t \in Tasks :
         (LeaseDeleted(t) /\ runner.outcome # "done") =>
             ~(t \in pm'.locked /\ pm'.status[t] \notin recovery_terminal)]_vars
====
